---- MODULE Spec2Model ----
(***************************************************************************)
(* Verification model of the glucose-pk dashboard engines:                 *)
(*   - CastleGame   (src/unnamed/part_000, lines 6-608)                    *)
(*   - GlucoseChart with time ranges (src/unnamed/part_000, lines 635-1133)*)
(*                                                                         *)
(* Numbers.  JavaScript numbers are modelled in fixed point: glucose       *)
(* values, health, buildProgress and attackIntensity are kept in TENTHS    *)
(* (3.9 mmol/L is 39, health 100 is 1000, attackIntensity 0.3 is 3).       *)
(* Every constant the code adds or compares with is a multiple of 0.1, so  *)
(* the scaling is exact up to IEEE rounding of the 0.1-steps.              *)
(* Timestamps are integers in milliseconds, as Date.getTime() gives them.  *)
(***************************************************************************)
EXTENDS Integers, Sequences, FiniteSets, TLC

VARIABLES
    \* CastleGame
    state,      \* CastleGame.state of the game under study
    twin,       \* CastleGame.state of a second instance fed the same values
    prev,       \* history: `state` before the last call on the game
    start,      \* history: `state` at the beginning of the behaviour
    op,         \* history: the last call made on the game
    ticks,      \* history: number of updateWithGlucose calls so far
    loop,       \* the frame loop of the game: this.animationId, the
                \*   callbacks requestAnimationFrame holds, and history
    \* GlucoseChart (time-range version)
    players,            \* this.players, as the sequence of their ids
    currentTimeRange,   \* this.currentTimeRange
    maxPoints,          \* this.maxPoints
    storedRange,        \* localStorage item 'glucose_chart_time_range'
    isLoading,          \* this.isLoading
    chart,              \* this.chart: [alive, labels, datasets]
    historyData,        \* this.historyData: player id -> list of {value, time}
    inflight,           \* fetches of /api/pk/history that have not settled
    now,                \* the wall clock, in ms
    issued,             \* history: number of fetches issued so far
    dropped,            \* history: a call returned at an isLoading guard
                        \*   since the last fetch was issued
    cop,                \* history: the last chart operation
    lastResult,         \* history: how the fetch settled, when the last
                        \*   chart operation was a fetch settling
    found,              \* history: the buffers that fetch found when it
                        \*   settled
    uncaught,           \* history: the last chart operation let an
                        \*   exception escape
    \* alignToInterval, applied to one timestamp
    alignArg,
    alignResult,
    \* the line styles createChart gives to the datasets of one player list
    stylePlayers,
    styleResult,
    \* GlucoseAPI (static/js/glucose-api.js)
    api,                \* players, demoData and mode of the instance
    apiOp,              \* history: the last call and how its request went
    \* GlucoseChart without time ranges (static/js/glucose-chart.js)
    legacy,             \* chart.data.labels, the datasets and historyData
    legacyInflight,     \* history requests whose response has not arrived
    legacyNow,          \* the clock, ms since the epoch
    legacyIssued,       \* number of history requests issued so far
    legacyArrived,      \* history: the newest request whose response has
                        \*   arrived and been applied
    legacyOp,           \* history: the last call
    \* Danmaku (static/js/danmaku.js)
    dm,                 \* Danmaku.state
    dmServer,           \* the comments the server holds, oldest first
    dmInflight,         \* requests and timeouts that have not settled
    dmCalls,            \* calls made so far, by kind
    dmOp,               \* history: the last call
    \* GlucoseUtils.getStatus, applied to one value
    statusArg,
    statusResult

gameVars == <<state, twin, prev, start, op, ticks, loop>>

chartVars == <<players, currentTimeRange, maxPoints, storedRange, isLoading,
               chart, historyData, inflight, now, issued, dropped, cop,
               lastResult, found, uncaught>>

alignVars == <<alignArg, alignResult>>

styleVars == <<stylePlayers, styleResult>>

apiVars == <<api, apiOp>>

legacyVars == <<legacy, legacyInflight, legacyNow, legacyIssued,
                legacyArrived, legacyOp>>

dmVars == <<dm, dmServer, dmInflight, dmCalls, dmOp>>

statusVars == <<statusArg, statusResult>>

restVars == <<styleVars, apiVars, legacyVars, dmVars, statusVars>>

vars == <<gameVars, chartVars, alignVars, restVars>>

-----------------------------------------------------------------------------
(* Bounds of the exploration *)

\* updateWithGlucose calls explored after the initial state (SpecGame)
MaxTicks == 2
\* length of the growth run explored by SpecGrowthRun
MaxRun == 100
\* updateWithGlucose calls explored on the pair of instances (SpecTwin)
MaxTwinTicks == 2
\* updateWithGlucose calls explored while the frame loop runs (SpecGameLoop)
MaxLoopTicks == 1
\* requestAnimationFrame calls explored (SpecLoop)
MaxHandles == 5
\* once the particle list holds this many particles the random draws of
\* further calls are fixed (no random spawn, shortest lifetime)
MaxParticles == 1

-----------------------------------------------------------------------------
(* JavaScript values that can be passed as glucoseValue *)

Num(n) == [kind |-> "number", n |-> n]
NaN == [kind |-> "NaN", n |-> 0]
Null == [kind |-> "null", n |-> 0]
Undefined == [kind |-> "undefined", n |-> 0]

\* v < t for a numeric literal t: null converts to 0, undefined and NaN
\* convert to NaN and every comparison with NaN is false
JsLess(v, t) ==
    CASE v.kind = "number" -> v.n < t
      [] v.kind = "null" -> 0 < t
      [] OTHER -> FALSE

\* v <= t, same conversions
JsLessEq(v, t) ==
    CASE v.kind = "number" -> v.n <= t
      [] v.kind = "null" -> 0 <= t
      [] OTHER -> FALSE

MathMax(a, b) == IF a >= b THEN a ELSE b

MathMin(a, b) == IF a <= b THEN a ELSE b

-----------------------------------------------------------------------------
(* CastleGame *)

\* this.state as the constructor and reset() build it
InitialState ==
    [health |-> 1000,
     level |-> 1,
     buildProgress |-> 0,
     isUnderAttack |-> FALSE,
     attackIntensity |-> 0,
     particles |-> <<>>,
     lastGlucose |-> Num(56)]

\* maxLife = 60 + Math.random() * 30 lies in [60, 90): the two extremes
MaxLifeChoices == {60, 89}

\* The outcomes of the Math.random() calls of one updateWithGlucose call:
\* spawn is the outcome of the `Math.random() < p` test of the tier branch,
\* maxLife[i] the lifetime drawn by the i-th addParticle call (a call adds
\* at most two particles).  Positions and velocities are not modelled.
AllDraws == [spawn : BOOLEAN, maxLife : [1..2 -> MaxLifeChoices]]

NoSpawn == [spawn |-> FALSE, maxLife |-> [i \in 1..2 |-> 60]]

Draws(st) ==
    IF Len(st.particles) >= MaxParticles THEN {NoSpawn} ELSE AllDraws

\* addParticle(type): life is kept as the numerator of life/maxLife, so the
\* code's life = 1 is life = maxLife here
AddParticle(st, type, m) ==
    [st EXCEPT !.particles =
        Append(@, [type |-> type, life |-> m, maxLife |-> m])]

\* the if / else-if chain of updateWithGlucose
TierOfBoundaryMutant(v) ==
    IF JsLessEq(v, 39) THEN "scarcity"
    ELSE IF JsLessEq(v, 78) THEN "growth"
    ELSE IF JsLessEq(v, 100) THEN "mild"
    ELSE IF JsLessEq(v, 111) THEN "moderate"
    ELSE "severe"

TierOf(v) ==
    IF JsLess(v, 39) THEN "scarcity"
    ELSE IF JsLessEq(v, 78) THEN "growth"
    ELSE IF JsLessEq(v, 100) THEN "mild"
    ELSE IF JsLessEq(v, 111) THEN "moderate"
    ELSE "severe"

Scarcity(st, rnd) ==
    AddParticle(
        [st EXCEPT !.isUnderAttack = FALSE,
                   !.attackIntensity = 0,
                   !.buildProgress = @ + 2,
                   !.health = MathMax(0, @ - 1)],
        "tired", rnd.maxLife[1])

GrowthRandomMutant(st, rnd) ==
    LET s == [st EXCEPT !.isUnderAttack = FALSE,
                        !.attackIntensity = 0,
                        !.buildProgress = @ + 1 * 10,
                        !.health = IF rnd.spawn THEN MathMin(1000, @ + 3) ELSE @]
    IN  IF rnd.spawn THEN AddParticle(s, "build", rnd.maxLife[1]) ELSE s

Growth(st, rnd) ==
    LET s == [st EXCEPT !.isUnderAttack = FALSE,
                        !.attackIntensity = 0,
                        !.buildProgress = @ + 1 * 10,
                        !.health = MathMin(1000, @ + 3)]
    IN  IF rnd.spawn THEN AddParticle(s, "build", rnd.maxLife[1]) ELSE s

MildAttack(st, rnd) ==
    LET s == [st EXCEPT !.isUnderAttack = TRUE,
                        !.attackIntensity = 3,
                        !.health = MathMax(0, @ - 3)]
    IN  IF rnd.spawn THEN AddParticle(s, "attack", rnd.maxLife[1]) ELSE s

ModerateAttack(st, rnd) ==
    LET s == [st EXCEPT !.isUnderAttack = TRUE,
                        !.attackIntensity = 6,
                        !.health = MathMax(0, @ - 6)]
    IN  IF rnd.spawn THEN AddParticle(s, "attack", rnd.maxLife[1]) ELSE s

SevereAttackNoFloorMutant(st, rnd) ==
    LET s == [st EXCEPT !.isUnderAttack = TRUE,
                        !.attackIntensity = 1 * 10,
                        !.health = @ - 1 * 10]
    IN  IF rnd.spawn
        THEN AddParticle(AddParticle(s, "attack", rnd.maxLife[1]),
                         "fire", rnd.maxLife[2])
        ELSE s

SevereAttack(st, rnd) ==
    LET s == [st EXCEPT !.isUnderAttack = TRUE,
                        !.attackIntensity = 1 * 10,
                        !.health = MathMax(0, @ - 1 * 10)]
    IN  IF rnd.spawn
        THEN AddParticle(AddParticle(s, "attack", rnd.maxLife[1]),
                         "fire", rnd.maxLife[2])
        ELSE s

\* the level check that ends updateWithGlucose.  The levelup particle takes
\* the second lifetime draw: the only branch that uses two draws (severe)
\* leaves buildProgress alone and so never reaches this addParticle.
CheckLevelUpNoCapMutant(st, rnd) ==
    IF st.buildProgress >= 100 * 10
    THEN AddParticle([st EXCEPT !.buildProgress = 0, !.level = @ + 1],
                     "levelup", rnd.maxLife[2])
    ELSE st

CheckLevelUpStrictMutant(st, rnd) ==
    IF st.buildProgress > 100 * 10
    THEN LET s == [st EXCEPT !.buildProgress = 0]
         IN  IF s.level < 5
             THEN AddParticle([s EXCEPT !.level = @ + 1],
                              "levelup", rnd.maxLife[2])
             ELSE s
    ELSE st

CheckLevelUpSilentMutant(st, rnd) ==
    IF st.buildProgress >= 100 * 10
    THEN LET s == [st EXCEPT !.buildProgress = 0]
         IN  IF s.level < 5 THEN [s EXCEPT !.level = @ + 1] ELSE s
    ELSE st

CheckLevelUp(st, rnd) ==
    IF st.buildProgress >= 100 * 10
    THEN LET s == [st EXCEPT !.buildProgress = 0]
         IN  IF s.level < 5
             THEN AddParticle([s EXCEPT !.level = @ + 1],
                              "levelup", rnd.maxLife[2])
             ELSE s
    ELSE st

\* updateWithGlucose(glucoseValue): the state it returns
UpdateWithGlucose(st, v, rnd) ==
    LET s0 == [st EXCEPT !.lastGlucose = v]
        t == TierOf(v)
        s1 == CASE t = "scarcity" -> Scarcity(s0, rnd)
                [] t = "growth" -> Growth(s0, rnd)
                [] t = "mild" -> MildAttack(s0, rnd)
                [] t = "moderate" -> ModerateAttack(s0, rnd)
                [] OTHER -> SevereAttack(s0, rnd)
    IN  CheckLevelUp(s1, rnd)

\* updateParticles() called until the list is empty: every particle leaves
\* the list after at most maxLife frames
Drained(st) == [st EXCEPT !.particles = <<>>]

\* n consecutive updateWithGlucose(v) calls
RECURSIVE Repeat(_, _, _)
Repeat(st, v, n) ==
    IF n = 0 THEN st
    ELSE IF n = 1 THEN UpdateWithGlucose(st, v, NoSpawn)
    ELSE \* (testing half.level only makes TLC evaluate half before it recurses)
         LET half == Repeat(st, v, n \div 2)
         IN  IF half.level >= 1 THEN Repeat(half, v, n - (n \div 2)) ELSE half

\* values passed to updateWithGlucose: both sides of every threshold, and
\* the missing values
GlucoseValues ==
    {Num(n) : n \in {38, 39, 78, 79, 100, 101, 111, 112}} \cup {Null, NaN, Undefined}

GrowthValues == {Num(39), Num(60), Num(78)}

\* Games that have been running for a while: a new game fed g readings of
\* 6.0, then c readings of 3.5, then s readings of 12.0, whose frame loop
\* has since emptied the particle list.
History(g, c, s) ==
    Drained(Repeat(Repeat(Repeat(InitialState, Num(60), g), Num(35), c), Num(120), s))

RunningGames ==
    {History(g, c, s) : g \in {0, 99, 499}, c \in {0, 4}, s \in {0, 100}}

\* the same, with buildProgress 0 at each of the five levels
FreshLevelGames ==
    {History(g, 0, s) : g \in {0, 100, 200, 300, 400}, s \in {0, 100}}

NoOp == [name |-> "new", v |-> Null]

\* the frame loop of a new game: animationId is null (0 here) and no
\* callback is scheduled.  handles counts the requestAnimationFrame calls;
\* halted holds from the return of stop() to the next start() call.
NoLoop == [animationId |-> 0, pending |-> {}, handles |-> 0, halted |-> FALSE]

GameStartsIn(games) ==
    /\ state \in games
    /\ twin = state
    /\ prev = state
    /\ start = state
    /\ op = NoOp
    /\ ticks = 0
    /\ loop = NoLoop

\* game.updateWithGlucose(v)
UpdateCall ==
    /\ ticks < MaxTicks
    /\ \E v \in GlucoseValues : \E rnd \in Draws(state) :
        /\ state' = UpdateWithGlucose(state, v, rnd)
        /\ op' = [name |-> "updateWithGlucose", v |-> v]
    /\ prev' = state
    /\ ticks' = ticks + 1
    /\ UNCHANGED <<twin, start, loop, chartVars, alignVars, restVars>>

ResetCallKeepsLevelMutant ==
    /\ state' = [InitialState EXCEPT !.level = state.level]
    /\ prev' = state
    /\ op' = [name |-> "reset", v |-> Null]
    /\ UNCHANGED <<twin, start, ticks, loop, chartVars, alignVars, restVars>>

\* game.reset()
ResetCall ==
    /\ state' = InitialState
    /\ prev' = state
    /\ op' = [name |-> "reset", v |-> Null]
    /\ UNCHANGED <<twin, start, ticks, loop, chartVars, alignVars, restVars>>

NextGame == UpdateCall \/ ResetCall


\* a run of growth readings on one game
GrowthTick ==
    /\ ticks < MaxRun
    /\ \E v \in GrowthValues : \E rnd \in Draws(state) :
        /\ state' = UpdateWithGlucose(state, v, rnd)
        /\ op' = [name |-> "updateWithGlucose", v |-> v]
    /\ prev' = state
    /\ ticks' = ticks + 1
    /\ UNCHANGED <<twin, start, loop, chartVars, alignVars, restVars>>

NextGrowthRun == GrowthTick


\* two instances in the same state receive the same value in one ingestion
\* tick; each makes its own random draws
TwinTick ==
    /\ ticks < MaxTwinTicks
    /\ \E v \in GlucoseValues : \E r1 \in Draws(state) : \E r2 \in Draws(twin) :
        /\ state' = UpdateWithGlucose(state, v, r1)
        /\ twin' = UpdateWithGlucose(twin, v, r2)
        /\ op' = [name |-> "updateWithGlucose", v |-> v]
    /\ prev' = state
    /\ ticks' = ticks + 1
    /\ UNCHANGED <<start, loop, chartVars, alignVars, restVars>>

NextTwin == TwinTick


\* a null element of this.state.particles.  The class never adds one; only
\* code outside it can, through the public state object.
NullParticle == [type |-> "(null)", life |-> 0, maxLife |-> 0]

\* the filter callback of updateParticles reads p.x of a null element and
\* throws a TypeError
Throws(st) == \E i \in DOMAIN st.particles : st.particles[i] = NullParticle

\* updateParticles() when the callback throws: the particles before the
\* first null element have been aged in place, and the assignment of the
\* filtered list does not happen
UpdateParticlesAborted(st) ==
    LET bad == CHOOSE i \in DOMAIN st.particles :
                  /\ st.particles[i] = NullParticle
                  /\ \A j \in 1..(i - 1) : st.particles[j] # NullParticle
    IN  [st EXCEPT !.particles =
            [i \in DOMAIN @ |->
                IF i < bad THEN [@[i] EXCEPT !.life = @ - 1] ELSE @[i]]]

UpdateParticlesFrozenMutant(st) == st

UpdateParticlesKeepsZeroMutant(st) ==
    LET aged == [i \in 1..Len(st.particles) |->
                    [st.particles[i] EXCEPT !.life = @ - 1]]
    IN  [st EXCEPT !.particles = SelectSeq(aged, LAMBDA p : p.life >= 0)]

UpdateParticlesDecaysAttackMutant(st) ==
    LET aged == [i \in 1..Len(st.particles) |->
                    [st.particles[i] EXCEPT !.life = @ - 1]]
    IN  [st EXCEPT !.particles = SelectSeq(aged, LAMBDA p : p.life > 0),
                   !.attackIntensity = MathMax(0, @ - 1)]

\* updateParticles(): every particle ages by 1/maxLife (one unit of the
\* numerator kept here) and leaves the list when its life is used up
UpdateParticles(st) ==
    LET aged == [i \in 1..Len(st.particles) |->
                    [st.particles[i] EXCEPT !.life = @ - 1]]
    IN  [st EXCEPT !.particles = SelectSeq(aged, LAMBDA p : p.life > 0)]

\* the body of animate: one frame (draw() changes no state), then the next
\* frame is requested and its handle stored
Animated(l) ==
    [l EXCEPT !.pending = @ \cup {l.handles + 1},
              !.handles = @ + 1,
              !.animationId = l.handles + 1]

\* stop(), on the loop
Stopped(l) ==
    IF l.animationId # 0
    THEN [l EXCEPT !.pending = @ \ {l.animationId}, !.animationId = 0,
                   !.halted = TRUE]
    ELSE [l EXCEPT !.halted = TRUE]

\* games in which a glucose update has just spawned a particle or not
GamesWithParticles ==
    {UpdateWithGlucose(InitialState, Num(60), rnd) : rnd \in AllDraws}

\* n consecutive frames
RECURSIVE Frames(_, _)
Frames(st, n) ==
    IF n = 0 THEN st
    ELSE IF n = 1 THEN UpdateParticles(st)
    ELSE \* (testing half.level only makes TLC evaluate half before it recurses)
         LET half == Frames(st, n \div 2)
         IN  IF half.level >= 1 THEN Frames(half, n - (n \div 2)) ELSE half

\* a game in which two updates have spawned a particle each, with the
\* shortest and the longest lifetime
TwoParticles ==
    UpdateWithGlucose(
        UpdateWithGlucose(InitialState, Num(60),
                          [spawn |-> TRUE, maxLife |-> [i \in 1..2 |-> 60]]),
        Num(60), [spawn |-> TRUE, maxLife |-> [i \in 1..2 |-> 89]])

\* that game when the first particle has one or two frames left
AgedGames == {Frames(TwoParticles, n) : n \in {58, 59}}

\* game.start(): animate() runs once, synchronously; when updateParticles
\* throws, no frame is requested
StartCall ==
    /\ loop.handles < MaxHandles
    \* (aborted frames keep ageing the particles in front of the bad one)
    /\ Throws(state) =>
           \A i \in DOMAIN state.particles :
               state.particles[i].life > 0 - MaxHandles
    /\ IF Throws(state)
       THEN /\ state' = UpdateParticlesAborted(state)
            /\ loop' = [loop EXCEPT !.halted = FALSE]
       ELSE /\ state' = UpdateParticles(state)
            /\ loop' = [Animated(loop) EXCEPT !.halted = FALSE]
    /\ prev' = state
    /\ op' = [name |-> "start", v |-> Null]
    /\ UNCHANGED <<twin, start, ticks, chartVars, alignVars, restVars>>

\* the browser runs a scheduled animate callback
FrameCallback ==
    /\ loop.handles < MaxHandles
    /\ \E h \in loop.pending :
        IF Throws(state)
        THEN /\ state' = UpdateParticlesAborted(state)
             /\ loop' = [loop EXCEPT !.pending = @ \ {h}]
        ELSE /\ state' = UpdateParticles(state)
             /\ loop' = Animated([loop EXCEPT !.pending = @ \ {h}])
    /\ prev' = state
    /\ op' = [name |-> "frame", v |-> Null]
    /\ UNCHANGED <<twin, start, ticks, chartVars, alignVars, restVars>>

\* game.stop()
StopCall ==
    /\ loop' = Stopped(loop)
    /\ prev' = state
    /\ op' = [name |-> "stop", v |-> Null]
    /\ UNCHANGED <<state, twin, start, ticks, chartVars, alignVars, restVars>>

NextLoop == StartCall \/ FrameCallback \/ StopCall

\* code outside the class pushes null onto game.state.particles
PushForeignCall ==
    /\ ~Throws(state)
    /\ state' = [state EXCEPT !.particles = Append(@, NullParticle)]
    /\ prev' = state
    /\ op' = [name |-> "push", v |-> Null]
    /\ UNCHANGED <<twin, start, ticks, loop, chartVars, alignVars, restVars>>

NextFaultyLoop == StartCall \/ FrameCallback \/ StopCall \/ PushForeignCall

\* values of the ingestion ticks that arrive while the frame loop runs: a
\* growth reading and a severe one
LoopValues == {Num(60), Num(120)}

\* game.updateWithGlucose(v), between two frames
LoopTick ==
    /\ ticks < MaxLoopTicks
    /\ \E v \in LoopValues : \E rnd \in Draws(state) :
        /\ state' = UpdateWithGlucose(state, v, rnd)
        /\ op' = [name |-> "updateWithGlucose", v |-> v]
    /\ prev' = state
    /\ ticks' = ticks + 1
    /\ UNCHANGED <<twin, start, loop, chartVars, alignVars, restVars>>

\* the frame loop together with the ingestion ticks and reset()
NextGameLoop ==
    StartCall \/ FrameCallback \/ StopCall \/ LoopTick \/ ResetCall

\* one frame of a running loop: the browser runs the scheduled animate
\* callback, which requests the next frame.  The new callback takes the
\* place of the one that ran; its handle is not numbered, so that a loop
\* can run for any number of frames.
RunningFrame ==
    /\ loop.pending # {}
    /\ ~Throws(state)
    /\ state' = UpdateParticles(state)
    /\ prev' = state
    /\ op' = [name |-> "frame", v |-> Null]
    /\ UNCHANGED <<twin, start, ticks, loop, chartVars, alignVars, restVars>>

\* a loop that is started and then runs on
NextRunningLoop == StartCall \/ RunningFrame

-----------------------------------------------------------------------------
(* GlucoseChart, the version with time ranges *)

RangeKeys == {"3h", "6h", "12h", "24h"}

\* static TIME_RANGES (the labels are not modelled)
TIME_RANGES ==
    [key \in RangeKeys |->
        CASE key = "3h" -> [hours |-> 3, points |-> 36]
          [] key = "6h" -> [hours |-> 6, points |-> 72]
          [] key = "12h" -> [hours |-> 12, points |-> 144]
          [] key = "24h" -> [hours |-> 24, points |-> 288]]

\* GlucoseChart.TIME_RANGES[key] is not undefined
HasRange(key) == key \in DOMAIN TIME_RANGES

\* localStorage.getItem(...) returned null
NoItem == "(null)"

\* what localStorage may hold when the chart is constructed
StoredItems == {NoItem, "24h", "bogus"}

\* keys passed to setTimeRange: the preset keys and one unknown key
RequestedKeys == RangeKeys \cup {"1h"}

PlayerIds == <<"user1", "user2">>

Range(seq) == {seq[i] : i \in 1..Len(seq)}

\* alignToInterval(date, intervalMinutes), on the ms value of the dates
AlignToIntervalRoundMutant(ms, intervalMinutes) ==
    LET intervalMs == intervalMinutes * 60 * 1000
    IN  ((ms + intervalMs \div 2) \div intervalMs) * intervalMs

AlignToInterval(ms, intervalMinutes) ==
    LET intervalMs == intervalMinutes * 60 * 1000
        \* Math.floor(ms / intervalMs): \div rounds towards minus infinity
        aligned == (ms \div intervalMs) * intervalMs
    IN  aligned

\* formatTimeLabel(date) under preset `key` (the caller has checked HasRange;
\* with an undefined preset the code throws a TypeError).  A label is the
\* text HH:mm, or MM-DD HH:mm for presets over 6 hours; it is modelled by
\* the fields the text shows, in UTC: the day (-1 when not shown) and the
\* minute of the day.  Months and years are not modelled.
FormatTimeLabel(ms, key) ==
    LET range == TIME_RANGES[key]
        minute == (ms \div 60000) % 1440
        day == ms \div 86400000
    IN  IF range.hours <= 6
        THEN [day |-> -1, minute |-> minute]
        ELSE [day |-> day, minute |-> minute]

\* createChart(): a Chart with no labels and one empty dataset per player
\* (datasets[i] here is datasets[i - 1] in the code)
CreateChart(ps) ==
    [alive |-> TRUE, labels |-> <<>>, datasets |-> [i \in 1..Len(ps) |-> <<>>]]

\* clear(), on the pair of this.chart and this.historyData
Cleared(b, ps) ==
    IF ~b.chart.alive THEN b
    ELSE [chart |-> [b.chart EXCEPT
                        !.labels = <<>>,
                        !.datasets = [i \in DOMAIN b.chart.datasets |-> <<>>]],
          historyData |-> [id \in DOMAIN b.historyData \cup Range(ps) |->
                              IF id \in Range(ps) THEN <<>> ELSE b.historyData[id]]]

ReverseIdentityMutant(seq) == seq

\* [...seq].reverse()
Reverse(seq) == [i \in 1..Len(seq) |-> seq[Len(seq) + 1 - i]]

SetMinPicksMaxMutant(S) == CHOOSE x \in S : \A y \in S : x >= y

SetMin(S) == CHOOSE x \in S : \A y \in S : x <= y

\* Array.from(set).sort((a, b) => a - b)
RECURSIVE SortAscending(_)
SortAscending(S) ==
    IF S = {} THEN <<>>
    ELSE LET m == SetMin(S) IN <<m>> \o SortAscending(S \ {m})

\* obj[key] = value on a JavaScript object used as a map
Put(obj, key, value) == (key :> value) @@ obj

EmptyObject == [key \in {} |-> Null]

\* the inner forEach of loadHistoryFromAPI from its k-th reading on:
\* playerDataMap[user_id][timestamp] = reading.value, so a later reading of
\* sortedData overwrites an earlier one of the same bucket
RECURSIVE FillBuckets(_, _, _)
FillBuckets(map, sortedData, k) ==
    IF k > Len(sortedData) THEN map
    ELSE LET alignedTime == AlignToInterval(sortedData[k].datetime, 5)
         IN  FillBuckets(Put(map, alignedTime, sortedData[k].value),
                         sortedData, k + 1)

\* `player.success && player.data`
Usable(entry) == entry.success /\ entry.hasData

\* allTimestamps after the outer forEach
AllTimestamps(entries) ==
    UNION {IF Usable(entries[i])
           THEN {AlignToInterval(entries[i].data[k].datetime, 5) :
                    k \in 1..Len(entries[i].data)}
           ELSE {} : i \in 1..Len(entries)}

\* playerDataMap after the outer forEach has run over entries[1..n]: the
\* entry of a user_id seen before replaces that player's map
RECURSIVE PlayerDataMap(_, _)
PlayerDataMap(entries, n) ==
    IF n = 0 THEN EmptyObject
    ELSE LET map == PlayerDataMap(entries, n - 1)
             player == entries[n]
         IN  IF Usable(player)
             THEN Put(map, player.user_id,
                      FillBuckets(EmptyObject, Reverse(player.data), 1))
             ELSE map

\* x ?? null
CoalesceZeroMutant(x) == IF x.kind \in {"null", "undefined"} THEN Num(0) ELSE x

Coalesce(x) == IF x.kind \in {"null", "undefined"} THEN Null ELSE x

\* data.filter(v => v !== null).map((value, i) => ({value, time: timeLabels[i]}))
HistoryEntries(data, timeLabels) ==
    LET filtered == SelectSeq(data, LAMBDA v : v # Null)
    IN  [i \in 1..Len(filtered) |-> [value |-> filtered[i], time |-> timeLabels[i]]]

\* the body of `if (result.success && result.players)` in loadHistoryFromAPI,
\* run with a live chart
Loaded(b, ps, key, entries) ==
    LET c == Cleared(b, ps)
        playerDataMap == PlayerDataMap(entries, Len(entries))
        sortedTimestamps == SortAscending(AllTimestamps(entries))
        n == Len(sortedTimestamps)
        timeLabels == [k \in 1..n |-> FormatTimeLabel(sortedTimestamps[k], key)]
        data == [id \in Range(ps) |->
                    [k \in 1..n |->
                        \* playerDataMap[player.id]?.[ts] ?? null
                        Coalesce(IF id \in DOMAIN playerDataMap
                                    /\ sortedTimestamps[k] \in DOMAIN playerDataMap[id]
                                 THEN playerDataMap[id][sortedTimestamps[k]]
                                 ELSE Undefined)]]
    IN  [chart |-> [c.chart EXCEPT
                        !.labels = timeLabels,
                        !.datasets = [i \in 1..Len(ps) |-> data[ps[i]]]],
         historyData |-> [id \in DOMAIN c.historyData |->
                              IF id \in Range(ps)
                              THEN HistoryEntries(data[id], timeLabels)
                              ELSE c.historyData[id]]]

\* list.push(x); if (list.length > maxPoints) list.shift()
PushShift(list, x, limit) ==
    LET pushed == Append(list, x)
    IN  IF Len(pushed) > limit THEN Tail(pushed) ELSE pushed

\* addDataPoint(playersData) after its `if (!this.chart) return`, with
\* timeLabel already formatted
DataPointAdded(b, ps, limit, playersData, timeLabel) ==
    [chart |-> [b.chart EXCEPT
                    !.labels = PushShift(@, timeLabel, limit),
                    !.datasets = [i \in DOMAIN @ |->
                        IF i \in 1..Len(ps) /\ playersData[ps[i]] # Undefined
                        THEN PushShift(@[i], playersData[ps[i]], limit)
                        ELSE @[i]]],
     historyData |-> [id \in DOMAIN b.historyData |->
                        IF id \in Range(ps) /\ playersData[id] # Undefined
                        THEN PushShift(b.historyData[id],
                                       [value |-> playersData[id], time |-> timeLabel],
                                       limit)
                        ELSE b.historyData[id]]]

\* updatePlayers(newPlayers): a list is created for the players that have
\* none (an existing list, even an empty one, is truthy and is kept), the
\* old chart is destroyed and a new one created
PlayersUpdated(b, newPlayers) ==
    [chart |-> CreateChart(newPlayers),
     historyData |-> [id \in DOMAIN b.historyData \cup Range(newPlayers) |->
                        IF id \in DOMAIN b.historyData
                        THEN b.historyData[id] ELSE <<>>]]

\* this.chart = null
NullChart == [alive |-> FALSE, labels |-> <<>>, datasets |-> <<>>]

\* destroy(), on this.chart
Destroyed(c) == IF c.alive THEN NullChart ELSE c

Buffers == [chart |-> chart, historyData |-> historyData]

-----------------------------------------------------------------------------
(* The collaborators of the chart: the clock and the history endpoint *)

\* the behaviour starts at 12:00 of day 2 (UTC)
StartTime == 60 * 3600000

\* options.updateInterval default: the ingestion cadence
UpdateIntervalMs == 300000

\* addDataPoint calls explored
MaxAdds == 1
\* fetches explored
MaxFetches == 2
\* readings per player the server holds for any window
MaxReadings == 38

\* readings of player number i as the endpoint lists them at time t, newest
\* first, n of them, 5 minutes apart; the sensor of player i reports i
\* minutes after the bucket boundary and i - 1 buckets behind the clock
Readings(i, n, t) ==
    [j \in 1..n |->
        [datetime |-> t - (i - 1) * 300000 + i * 60000 - (j - 1) * 300000,
         value |-> Num(50 + i + (j % 3))]]

FailedEntry(id) ==
    [user_id |-> id, success |-> FALSE, hasData |-> FALSE, data |-> <<>>]

DataEntry(id, data) ==
    [user_id |-> id, success |-> TRUE, hasData |-> TRUE, data |-> data]

\* the entry of player number i: a failure, its newest 2 readings, or its
\* newest max_count readings
Entry(i, shape, req, t) ==
    CASE shape = "failed" -> FailedEntry(PlayerIds[i])
      [] shape = "short" -> DataEntry(PlayerIds[i], Readings(i, 2, t))
      [] shape = "full" ->
            DataEntry(PlayerIds[i],
                      Readings(i, MathMin(req.maxCount, MaxReadings), t))

\* the successful responses explored, as the shapes of the two entries
ResponseShapes ==
    {<<"short", "short">>, <<"failed", "short">>,
     <<"full", "failed">>, <<"full", "full">>}

\* how a fetch may settle: it rejects (or its body does not parse), it
\* reports success = false, or it reports success with one entry per player
Responses(req, t) ==
    {[kind |-> "reject", success |-> FALSE, players |-> <<>>],
     [kind |-> "json", success |-> FALSE, players |-> <<>>]} \cup
    {[kind |-> "json", success |-> TRUE,
      players |-> <<Entry(1, sh[1], req, t), Entry(2, sh[2], req, t)>>] :
        sh \in ResponseShapes}

\* readings of player number i, newest first, n of them, 2 minutes apart, so
\* that consecutive readings fall into the same 5-minute bucket
DenseReadings(i, n, t) ==
    [j \in 1..n |->
        [datetime |-> t + i * 60000 - (j - 1) * 120000,
         value |-> Num(50 + i + (j % 3))]]

\* an entry with success = true and data = null
NoDataEntry(id) ==
    [user_id |-> id, success |-> TRUE, hasData |-> FALSE, data |-> <<>>]

VariedEntry(i, shape, t) ==
    CASE shape = "failed" -> FailedEntry(PlayerIds[i])
      [] shape = "nodata" -> NoDataEntry(PlayerIds[i])
      [] shape = "empty" -> DataEntry(PlayerIds[i], <<>>)
      [] shape = "short" -> DataEntry(PlayerIds[i], Readings(i, 2, t))
      [] shape = "dense" -> DataEntry(PlayerIds[i], DenseReadings(i, 3, t))

VariedShapes ==
    {<<"short", "short">>, <<"dense", "failed">>,
     <<"empty", "short">>, <<"nodata", "dense">>}

\* result.players of the small responses: one entry per player in the
\* shapes above, an entry for the second player only, and two entries that
\* carry the first player's id
VariedPlayers(t) ==
    {<<VariedEntry(1, sh[1], t), VariedEntry(2, sh[2], t)>> : sh \in VariedShapes}
        \cup {<<VariedEntry(2, "short", t)>>}
        \cup {<<DataEntry(PlayerIds[1], Readings(1, 2, t)),
                DataEntry(PlayerIds[1], DenseReadings(2, 3, t))>>}

VariedResponses(req, t) ==
    {[kind |-> "reject", success |-> FALSE, players |-> <<>>],
     [kind |-> "json", success |-> FALSE, players |-> <<>>]} \cup
    {[kind |-> "json", success |-> TRUE, players |-> ps] : ps \in VariedPlayers(t)}

\* the player lists passed to updatePlayers
PlayerLists == {PlayerIds, <<"user2">>}

\* the maps passed to addDataPoint: each player has a value or none
PlayersDataChoices == [Range(PlayerIds) -> {Undefined, Num(62)}]

-----------------------------------------------------------------------------
(* GlucoseChart operations *)

\* the record of a call: its argument, currentTimeRange and isLoading when
\* it was made, whether it issued a fetch (or, for a response, whether the
\* response reported success), and the fetch concerned
ChartOp(name, key, oldKey, wasLoading, fetched, id) ==
    [name |-> name, key |-> key, oldKey |-> oldKey, wasLoading |-> wasLoading,
     fetched |-> fetched, id |-> id]

NoChartOp == ChartOp("new", "", "", FALSE, FALSE, 0)

\* the last chart operation was not a fetch settling
NoResult == [kind |-> "none", success |-> FALSE, players |-> <<>>]

NoBuffers == [chart |-> NullChart, historyData |-> EmptyObject]

\* `dropped` after a call that may issue a fetch
DroppedAfter(wasIssued) ==
    IF wasIssued THEN FALSE ELSE IF isLoading THEN TRUE ELSE dropped

\* new GlucoseChart(options) followed by init()
InitChart ==
    /\ \E item \in StoredItems :
        /\ storedRange = item
        /\ currentTimeRange = (IF item = NoItem THEN "3h" ELSE item)
    /\ maxPoints = (IF HasRange(currentTimeRange)
                    THEN TIME_RANGES[currentTimeRange].points ELSE 36)
    /\ players = PlayerIds
    /\ chart = CreateChart(players)
    /\ historyData = [id \in Range(players) |-> <<>>]
    /\ isLoading = FALSE
    /\ inflight = {}
    /\ now = StartTime
    /\ issued = 0
    /\ dropped = FALSE
    /\ cop = NoChartOp
    /\ lastResult = NoResult
    /\ found = NoBuffers
    /\ uncaught = FALSE

\* `if (this.isLoading) return false` of loadHistoryFromAPI
LoadBlockedNeverMutant == FALSE

LoadBlocked == isLoading

LoadHistoryStartFixedWindowMutant(key) ==
    IF LoadBlocked
    THEN UNCHANGED <<isLoading, inflight, issued>>
    ELSE IF ~HasRange(key)
    THEN /\ isLoading' = FALSE
         /\ UNCHANGED <<inflight, issued>>
    ELSE /\ isLoading' = TRUE
         /\ issued' = issued + 1
         /\ inflight' = inflight \cup
                {[id |-> issued + 1, minutes |-> 180, maxCount |-> 36]}

\* loadHistoryFromAPI() up to its first await.  With an undefined preset
\* `range.hours` throws inside the try and the catch resets isLoading.
LoadHistoryStart(key) ==
    IF LoadBlocked
    THEN UNCHANGED <<isLoading, inflight, issued>>
    ELSE IF ~HasRange(key)
    THEN /\ isLoading' = FALSE
         /\ UNCHANGED <<inflight, issued>>
    ELSE /\ isLoading' = TRUE
         /\ issued' = issued + 1
         /\ inflight' = inflight \cup
                {[id |-> issued + 1,
                  minutes |-> TIME_RANGES[key].hours * 60,
                  maxCount |-> TIME_RANGES[key].points]}

\* chart.loadHistoryFromAPI(), called by the page
LoadHistoryCall ==
    /\ issued < MaxFetches
    /\ LoadHistoryStart(currentTimeRange)
    /\ cop' = ChartOp("loadHistoryFromAPI", currentTimeRange, currentTimeRange,
                      isLoading, issued' # issued, issued')
    /\ dropped' = DroppedAfter(issued' # issued)
    /\ uncaught' = FALSE
    /\ lastResult' = NoResult
    /\ found' = NoBuffers
    /\ UNCHANGED <<players, currentTimeRange, maxPoints, storedRange, chart,
                   historyData, now>>
    /\ UNCHANGED <<gameVars, alignVars, restVars>>

SetTimeRangeCallUnvalidatedMutant ==
    /\ issued < MaxFetches
    /\ \E rangeKey \in RequestedKeys :
        IF isLoading \/ ~HasRange(rangeKey)
        THEN /\ cop' = ChartOp("setTimeRange", rangeKey, currentTimeRange,
                               isLoading, FALSE, issued)
             /\ dropped' = DroppedAfter(FALSE)
             /\ uncaught' = ~isLoading
             /\ UNCHANGED <<currentTimeRange, maxPoints, storedRange,
                            isLoading, inflight, issued>>
        ELSE /\ currentTimeRange' = rangeKey
             /\ maxPoints' = TIME_RANGES[rangeKey].points
             /\ storedRange' = rangeKey
             /\ LoadHistoryStart(rangeKey)
             /\ cop' = ChartOp("setTimeRange", rangeKey, currentTimeRange,
                               isLoading, issued' # issued, issued')
             /\ dropped' = DroppedAfter(issued' # issued)
             /\ uncaught' = FALSE
    /\ lastResult' = NoResult
    /\ found' = NoBuffers
    /\ UNCHANGED <<players, chart, historyData, now>>
    /\ UNCHANGED <<gameVars, alignVars, restVars>>

\* chart.setTimeRange(rangeKey)
SetTimeRangeCall ==
    /\ issued < MaxFetches
    /\ \E rangeKey \in RequestedKeys :
        IF isLoading \/ ~HasRange(rangeKey)
        THEN /\ cop' = ChartOp("setTimeRange", rangeKey, currentTimeRange,
                               isLoading, FALSE, issued)
             /\ dropped' = DroppedAfter(FALSE)
             /\ UNCHANGED <<currentTimeRange, maxPoints, storedRange,
                            isLoading, inflight, issued>>
        ELSE /\ currentTimeRange' = rangeKey
             /\ maxPoints' = TIME_RANGES[rangeKey].points
             /\ storedRange' = rangeKey
             /\ LoadHistoryStart(rangeKey)
             /\ cop' = ChartOp("setTimeRange", rangeKey, currentTimeRange,
                               isLoading, issued' # issued, issued')
             /\ dropped' = DroppedAfter(issued' # issued)
    /\ uncaught' = FALSE
    /\ lastResult' = NoResult
    /\ found' = NoBuffers
    /\ UNCHANGED <<players, chart, historyData, now>>
    /\ UNCHANGED <<gameVars, alignVars, restVars>>

\* loadHistoryFromAPI from the point its fetch settles with `result`, on the
\* pair of this.chart and this.historyData
SettledMergesMutant(b, ps, key, result) ==
    IF result.kind = "json" /\ result.success /\ b.chart.alive
    THEN LET l == Loaded(b, ps, key, result.players)
         IN  [l EXCEPT !.chart.labels = b.chart.labels \o @]
    ELSE b

SettledClearsFirstMutant(b, ps, key, result) ==
    IF result.kind = "json" /\ result.success /\ b.chart.alive
    THEN Loaded(b, ps, key, result.players)
    ELSE Cleared(b, ps)

SettledWithoutChartMutant(b, ps, key, result) ==
    IF result.kind = "json" /\ result.success
    THEN [chart |-> b.chart,
          historyData |-> Loaded([b EXCEPT !.chart.alive = TRUE], ps, key,
                                 result.players).historyData]
    ELSE b

Settled(b, ps, key, result) ==
    IF result.kind = "json" /\ result.success /\ b.chart.alive
    THEN Loaded(b, ps, key, result.players)
    ELSE \* not applied; without a chart clear() returns at once and
         \* `this.chart.data` throws a TypeError, which the catch swallows
         b

\* a fetch settles, with one of the small responses if `varied`, and
\* loadHistoryFromAPI runs to its end
Settle(varied) ==
    /\ \E req \in inflight :
       \E resp \in (IF varied THEN VariedResponses(req, now)
                              ELSE Responses(req, now)) :
        /\ inflight' = inflight \ {req}
        /\ LET b == Settled(Buffers, players, currentTimeRange, resp)
           IN  /\ chart' = b.chart
               /\ historyData' = b.historyData
        /\ cop' = ChartOp("response", resp.kind, currentTimeRange, isLoading,
                          resp.kind = "json" /\ resp.success, req.id)
        /\ lastResult' = resp
        /\ found' = Buffers
    /\ isLoading' = FALSE
    /\ uncaught' = FALSE
    /\ UNCHANGED <<players, currentTimeRange, maxPoints, storedRange, now, issued,
                   dropped>>
    /\ UNCHANGED <<gameVars, alignVars, restVars>>

Respond == Settle(FALSE)

\* chart.addDataPoint(playersData), one ingestion interval after the
\* previous one.  With an undefined preset formatTimeLabel throws before
\* anything is written.
AddDataPointCall ==
    /\ now < StartTime + MaxAdds * UpdateIntervalMs
    /\ now' = now + UpdateIntervalMs
    /\ \E playersData \in PlayersDataChoices :
        /\ IF chart.alive /\ HasRange(currentTimeRange)
           THEN LET b == DataPointAdded(Buffers, players, maxPoints, playersData,
                                        FormatTimeLabel(now', currentTimeRange))
                IN  /\ chart' = b.chart
                    /\ historyData' = b.historyData
           ELSE UNCHANGED <<chart, historyData>>
        /\ cop' = ChartOp("addDataPoint", "", currentTimeRange, isLoading, FALSE, 0)
    /\ uncaught' = (chart.alive /\ ~HasRange(currentTimeRange))
    /\ lastResult' = NoResult
    /\ found' = NoBuffers
    /\ UNCHANGED <<players, currentTimeRange, maxPoints, storedRange, isLoading,
                   inflight, issued, dropped>>
    /\ UNCHANGED <<gameVars, alignVars, restVars>>

\* chart.clear()
ClearCall ==
    /\ LET b == Cleared(Buffers, players)
       IN  /\ chart' = b.chart
           /\ historyData' = b.historyData
    /\ cop' = ChartOp("clear", "", currentTimeRange, isLoading, FALSE, 0)
    /\ uncaught' = FALSE
    /\ lastResult' = NoResult
    /\ found' = NoBuffers
    /\ UNCHANGED <<players, currentTimeRange, maxPoints, storedRange, isLoading,
                   inflight, now, issued, dropped>>
    /\ UNCHANGED <<gameVars, alignVars, restVars>>

\* the fetch settles with one of the small responses
RespondVaried == Settle(TRUE)

\* chart.updatePlayers(newPlayers)
UpdatePlayersCall ==
    /\ \E newPlayers \in PlayerLists :
        /\ players' = newPlayers
        /\ LET b == PlayersUpdated(Buffers, newPlayers)
           IN  /\ chart' = b.chart
               /\ historyData' = b.historyData
    /\ cop' = ChartOp("updatePlayers", "", currentTimeRange, isLoading, FALSE, 0)
    /\ uncaught' = FALSE
    /\ lastResult' = NoResult
    /\ found' = NoBuffers
    /\ UNCHANGED <<currentTimeRange, maxPoints, storedRange, isLoading,
                   inflight, now, issued, dropped>>
    /\ UNCHANGED <<gameVars, alignVars, restVars>>

\* chart.destroy()
DestroyCall ==
    /\ chart' = Destroyed(chart)
    /\ cop' = ChartOp("destroy", "", currentTimeRange, isLoading, FALSE, 0)
    /\ uncaught' = FALSE
    /\ lastResult' = NoResult
    /\ found' = NoBuffers
    /\ UNCHANGED <<players, currentTimeRange, maxPoints, storedRange, isLoading,
                   historyData, inflight, now, issued, dropped>>
    /\ UNCHANGED <<gameVars, alignVars, restVars>>

NextChart ==
    \/ LoadHistoryCall
    \/ SetTimeRangeCall
    \/ Respond
    \/ AddDataPointCall
    \/ ClearCall

\* the life of a chart on a page: loads with small responses, ingestion
\* ticks, and the calls that clear, rebuild and destroy the chart
NextChartLife ==
    \/ LoadHistoryCall
    \/ RespondVaried
    \/ AddDataPointCall
    \/ ClearCall
    \/ UpdatePlayersCall
    \/ DestroyCall

-----------------------------------------------------------------------------
(* alignToInterval applied to one timestamp *)

\* buckets explored on each side of the epoch
MaxBucket == 6

\* offsets within a bucket, in ms
BucketOffsets == {0, 1, 149999, 150000, 150001, 299998, 299999}

Timestamps ==
    {b * 300000 + d : b \in (0 - MaxBucket)..MaxBucket, d \in BucketOffsets}

InitAlign ==
    /\ alignArg \in Timestamps
    /\ alignResult = [done |-> FALSE, ms |-> 0]

\* chart.alignToInterval(new Date(alignArg), 5).getTime()
AlignCall ==
    /\ ~alignResult.done
    /\ alignResult' = [done |-> TRUE, ms |-> AlignToInterval(alignArg, 5)]
    /\ UNCHANGED <<alignArg, gameVars, chartVars, restVars>>

NextAlign == AlignCall

-----------------------------------------------------------------------------
(* The line styles of createChart *)

\* players a chart is created for
MaxEntities == 5

Entities == 1..MaxEntities

\* lineStyles in createChart
LineStyles ==
    << [borderDash |-> <<>>, pointStyle |-> "circle"],
       [borderDash |-> <<8, 4>>, pointStyle |-> "rect"],
       [borderDash |-> <<4, 4>>, pointStyle |-> "triangle"],
       [borderDash |-> <<12, 4, 4, 4>>, pointStyle |-> "star"] >>

StyleOfIndexUnwrappedMutant(index) ==
    IF index < Len(LineStyles) THEN LineStyles[index + 1]
    ELSE [borderDash |-> <<index>>, pointStyle |-> "circle"]

\* lineStyles[index % lineStyles.length], for the 0-based index of the code
StyleOfIndex(index) == LineStyles[(index % Len(LineStyles)) + 1]

\* borderDash and pointStyle of the datasets this.players.map(...) builds
\* (element i here is datasets[i - 1] in the code)
DatasetStyles(ps) == [i \in 1..Len(ps) |-> StyleOfIndex(i - 1)]

\* player lists: any number of entities, none twice
EntityLists ==
    {ps \in UNION {[1..n -> Entities] : n \in 0..MaxEntities} :
        \A i, j \in DOMAIN ps : ps[i] = ps[j] => i = j}

NoStyles == [done |-> FALSE, styles |-> <<>>]

InitStyles ==
    /\ stylePlayers \in EntityLists
    /\ styleResult = NoStyles

\* createChart(), for the styles of its datasets
CreateStylesCall ==
    /\ ~styleResult.done
    /\ styleResult' = [done |-> TRUE, styles |-> DatasetStyles(stylePlayers)]
    /\ UNCHANGED <<stylePlayers, apiVars, legacyVars, dmVars>>
    /\ UNCHANGED <<gameVars, chartVars, alignVars, statusVars>>

NextStyles == CreateStylesCall

-----------------------------------------------------------------------------
(* GlucoseAPI (static/js/glucose-api.js); glucose values in tenths of
   mmol/L, players as their ids *)

\* the players the catch block of init() installs
DefaultPlayers == <<"user1", "user2">>

\* the user lists a successful /api/users response may carry
UserLists == {<<"user3">>, <<"user1", "user2", "user3">>}

\* how the request of init() may go: fetch or response.json() throws, the
\* body has no true `success`, the body reports success without a users
\* array, or it reports success with a list of users
InitOutcomes ==
    {[kind |-> k, users |-> <<>>] :
        k \in {"throws", "not success", "success without users"}}
    \cup {[kind |-> "success", users |-> us] : us \in UserLists}

\* this.players.forEach(p => { this.demoData[p.id] = {value: 5.6, ...} })
RECURSIVE SeedDemoData(_, _, _)
SeedDemoData(demoData, ps, k) ==
    IF k > Len(ps) THEN demoData
    ELSE SeedDemoData(Put(demoData, ps[k], 56), ps, k + 1)

\* the catch block of init()
FellBack(a) ==
    [a EXCEPT !.players = DefaultPlayers,
              !.demoData = SeedDemoData(a.demoData, DefaultPlayers, 1)]

\* init(), on the instance `a`
ApiInitialized(a, outcome) ==
    CASE outcome.kind = "throws" -> FellBack(a)
      [] outcome.kind = "not success" -> a
      \* this.players = undefined, then undefined.forEach throws inside try
      [] outcome.kind = "success without users" -> FellBack(a)
      [] outcome.kind = "success" ->
            [a EXCEPT !.players = outcome.users,
                      !.demoData = SeedDemoData(a.demoData, outcome.users, 1)]

Modes == {"live", "demo"}

DemoValues == {39, 111}

DemoTargets == {"user1", "user2", "user3", "nobody"}

NoApiOp == [name |-> "none", outcome |-> "none"]

\* new GlucoseAPI(): the mode is the stored one, 'live' without one
InitApi ==
    /\ api \in {[players |-> <<>>, demoData |-> EmptyObject, mode |-> m] :
                    m \in Modes}
    /\ apiOp = NoApiOp

\* await api.init()
ApiInitCall ==
    \E outcome \in InitOutcomes :
        /\ api' = ApiInitialized(api, outcome)
        /\ apiOp' = [name |-> "init", outcome |-> outcome.kind]
        /\ UNCHANGED <<styleVars, legacyVars, dmVars>>
        /\ UNCHANGED <<gameVars, chartVars, alignVars, statusVars>>

\* setDemoValue(playerId, value)
SetDemoValueCall ==
    \E playerId \in DemoTargets, value \in DemoValues :
        /\ api' = IF playerId \in DOMAIN api.demoData
                  THEN [api EXCEPT !.demoData = Put(@, playerId, value)]
                  ELSE api
        /\ apiOp' = [name |-> "setDemoValue", outcome |-> "none"]
        /\ UNCHANGED <<styleVars, legacyVars, dmVars>>
        /\ UNCHANGED <<gameVars, chartVars, alignVars, statusVars>>

\* setMode(mode)
SetModeCall ==
    \E mode \in Modes :
        /\ api' = [api EXCEPT !.mode = mode]
        /\ apiOp' = [name |-> "setMode", outcome |-> "none"]
        /\ UNCHANGED <<styleVars, legacyVars, dmVars>>
        /\ UNCHANGED <<gameVars, chartVars, alignVars, statusVars>>

NextApi == ApiInitCall \/ SetDemoValueCall \/ SetModeCall

-----------------------------------------------------------------------------
(* GlucoseChart without time ranges (static/js/glucose-chart.js), created for
   PlayerIds with the default maxPoints and with init() called *)

\* options.maxPoints default
LegacyMaxPoints == 36

\* history requests explored
MaxLegacyFetches == 2
\* addDataPoint calls explored
MaxLegacyAdds == 2

\* time.toLocaleTimeString('zh-CN', {hour: '2-digit', minute: '2-digit'}):
\* the string "HH:mm", kept as the minute of the day (UTC); the strings
\* sort as these numbers do
TimeKey(ms) == (ms \div 60000) % 1440

\* constructor and init(): a Chart with no labels and one empty dataset per
\* player, and an empty history per player
LegacyCreated(ps) ==
    [chart |-> [alive |-> TRUE, labels |-> <<>>,
                datasets |-> [i \in 1..Len(ps) |-> <<>>]],
     historyData |-> [id \in Range(ps) |-> <<>>]]

\* clear(), with a chart
LegacyCleared(b, ps) ==
    [chart |-> [b.chart EXCEPT
                    !.labels = <<>>,
                    !.datasets = [i \in DOMAIN b.chart.datasets |-> <<>>]],
     historyData |-> [id \in DOMAIN b.historyData |->
                        IF id \in Range(ps) THEN <<>> ELSE b.historyData[id]]]

\* the inner forEach from the k-th reading on:
\* playerDataMap[user_id][timeKey] = reading.value
RECURSIVE LegacyFillTimes(_, _, _)
LegacyFillTimes(map, sortedData, k) ==
    IF k > Len(sortedData) THEN map
    ELSE LegacyFillTimes(Put(map, TimeKey(sortedData[k].datetime),
                             sortedData[k].value),
                         sortedData, k + 1)

\* allTimes after the outer forEach
LegacyAllTimes(entries) ==
    UNION {IF Usable(entries[i])
           THEN {TimeKey(entries[i].data[k].datetime) :
                    k \in 1..Len(entries[i].data)}
           ELSE {} : i \in 1..Len(entries)}

\* playerDataMap after the outer forEach has run over entries[1..n]
RECURSIVE LegacyPlayerDataMap(_, _)
LegacyPlayerDataMap(entries, n) ==
    IF n = 0 THEN EmptyObject
    ELSE LET map == LegacyPlayerDataMap(entries, n - 1)
             player == entries[n]
         IN  IF Usable(player)
             THEN Put(map, player.user_id,
                      LegacyFillTimes(EmptyObject, Reverse(player.data), 1))
             ELSE map

\* the body of `if (result.success && result.players)`
LegacyLoaded(b, ps, entries) ==
    LET c == LegacyCleared(b, ps)
        playerDataMap == LegacyPlayerDataMap(entries, Len(entries))
        sortedTimes == SortAscending(LegacyAllTimes(entries))
        n == Len(sortedTimes)
        data == [id \in Range(ps) |->
                    [k \in 1..n |->
                        \* playerDataMap[player.id]?.[time] ?? null
                        Coalesce(IF id \in DOMAIN playerDataMap
                                    /\ sortedTimes[k] \in DOMAIN playerDataMap[id]
                                 THEN playerDataMap[id][sortedTimes[k]]
                                 ELSE Undefined)]]
    IN  [chart |-> [c.chart EXCEPT
                        !.labels = sortedTimes,
                        !.datasets = [i \in DOMAIN @ |->
                            IF i \in 1..Len(ps) THEN data[ps[i]] ELSE @[i]]],
         historyData |-> [id \in DOMAIN c.historyData |->
                            IF id \in Range(ps)
                            THEN HistoryEntries(data[id], sortedTimes)
                            ELSE c.historyData[id]]]

\* addDataPoint(playersData), with a chart and timeLabel already formatted
LegacyDataPointAdded(b, ps, playersData, timeLabel) ==
    [chart |-> [b.chart EXCEPT
                    !.labels = PushShift(@, timeLabel, LegacyMaxPoints),
                    !.datasets = [i \in DOMAIN @ |->
                        IF i \in 1..Len(ps) /\ playersData[ps[i]] # Undefined
                        THEN PushShift(@[i], playersData[ps[i]], LegacyMaxPoints)
                        ELSE @[i]]],
     historyData |-> [id \in DOMAIN b.historyData |->
                        IF id \in Range(ps) /\ playersData[id] # Undefined
                        THEN PushShift(b.historyData[id],
                                       [value |-> playersData[id],
                                        time |-> timeLabel],
                                       LegacyMaxPoints)
                        ELSE b.historyData[id]]]

\* how the fetch of a request may settle.  The server answers a request with
\* the readings it holds when the request is issued; the response arrives
\* any time later.
LegacyResponses(req) ==
    {[kind |-> "reject", success |-> FALSE, players |-> <<>>],
     [kind |-> "json", success |-> FALSE, players |-> <<>>]} \cup
    {[kind |-> "json", success |-> TRUE,
      players |-> <<DataEntry(PlayerIds[1], Readings(1, n, req.at)),
                    DataEntry(PlayerIds[2], Readings(2, 2, req.at))>>] :
        n \in {1, 2}}

NoLegacyOp == [name |-> "none", id |-> 0, stale |-> FALSE, success |-> FALSE]

InitLegacy ==
    /\ legacy = LegacyCreated(PlayerIds)
    /\ legacyInflight = {}
    /\ legacyNow = StartTime
    /\ legacyIssued = 0
    /\ legacyArrived = 0
    /\ legacyOp = NoLegacyOp

\* chart.loadHistoryFromAPI() up to `await fetch(...)`: nothing is checked
\* and nothing is written before the request leaves
LegacyLoadHistoryCall ==
    /\ legacyIssued < MaxLegacyFetches
    /\ legacyIssued' = legacyIssued + 1
    /\ legacyInflight' =
           legacyInflight \cup {[id |-> legacyIssued + 1, at |-> legacyNow]}
    /\ legacyOp' = [NoLegacyOp EXCEPT !.name = "loadHistoryFromAPI",
                                      !.id = legacyIssued + 1]
    /\ UNCHANGED <<legacy, legacyNow, legacyArrived>>
    /\ UNCHANGED <<styleVars, apiVars, dmVars>>
    /\ UNCHANGED <<gameVars, chartVars, alignVars, statusVars>>

\* the rest of loadHistoryFromAPI(), when the response of request `req`
\* arrives
LegacyRespond ==
    \E req \in legacyInflight : \E r \in LegacyResponses(req) :
        /\ legacyInflight' = legacyInflight \ {req}
        /\ legacy' = IF r.kind = "json" /\ r.success
                     THEN LegacyLoaded(legacy, PlayerIds, r.players)
                     ELSE legacy
        /\ legacyArrived' = IF r.kind = "json" /\ r.success
                            THEN MathMax(legacyArrived, req.id)
                            ELSE legacyArrived
        /\ legacyOp' = [name |-> "respond", id |-> req.id,
                        stale |-> req.id < legacyArrived,
                        success |-> (r.kind = "json" /\ r.success)]
        /\ UNCHANGED <<legacyNow, legacyIssued>>
        /\ UNCHANGED <<styleVars, apiVars, dmVars>>
        /\ UNCHANGED <<gameVars, chartVars, alignVars, statusVars>>

\* chart.addDataPoint(playersData), one ingestion interval after the
\* previous one
LegacyAddDataPointCall ==
    /\ legacyNow < StartTime + MaxLegacyAdds * UpdateIntervalMs
    /\ legacyNow' = legacyNow + UpdateIntervalMs
    /\ \E playersData \in PlayersDataChoices :
        legacy' = LegacyDataPointAdded(legacy, PlayerIds, playersData,
                                       TimeKey(legacyNow'))
    /\ legacyOp' = [NoLegacyOp EXCEPT !.name = "addDataPoint"]
    /\ UNCHANGED <<legacyInflight, legacyIssued, legacyArrived>>
    /\ UNCHANGED <<styleVars, apiVars, dmVars>>
    /\ UNCHANGED <<gameVars, chartVars, alignVars, statusVars>>

NextLegacy ==
    LegacyLoadHistoryCall \/ LegacyRespond \/ LegacyAddDataPointCall

-----------------------------------------------------------------------------
(* DanmakuSystem (static/js/danmaku.js).  A comment is its id; the server
   numbers the comments it stores 1, 2, ... *)

\* `if (this.state.comments.length > 20) ... slice(-20)`, also taken as the
\* most comments one GET /api/comments response carries
MaxComments == 20

\* Date.now() of the first submitComment call: above every server id
LocalIdBase == 1000000

\* comments the server may hold when the page opens
MaxServerStart == 20
\* loadComments calls, poll ticks, submitComment calls and comments of
\* other users explored
MaxLoads == 1
MaxPolls == 1
MaxSubmits == 1
MaxOthers == 1

\* Math.max(...ids) of a non-empty list
MaxOf(seq) == CHOOSE x \in Range(seq) : \A y \in Range(seq) : x >= y

\* stopLoop()
StopLoop(d) == [d EXCEPT !.loopTimer = FALSE]

\* playNextInLoop() reads comments[loopIndex] === undefined and showDanmaku
\* throws on it
PlayThrows(d) ==
    d.isLooping /\ Len(d.comments) > 0 /\ d.loopIndex >= Len(d.comments)

\* playNextInLoop(); when showDanmaku throws, loopIndex is not advanced
PlayNextInLoop(d) ==
    IF ~d.isLooping \/ Len(d.comments) = 0 \/ PlayThrows(d) THEN d
    ELSE [d EXCEPT !.loopIndex = (@ + 1) % Len(d.comments)]

\* startLoop()
StartLoop(d) ==
    LET stopped == StopLoop(d)
    IN  IF Len(stopped.comments) = 0 THEN stopped
        ELSE [PlayNextInLoop([stopped EXCEPT !.loopIndex = 0])
                EXCEPT !.loopTimer = TRUE]

\* the comments a GET /api/comments[?since_id=since] response carries when
\* the server holds `count` comments: the newest ones, oldest first, those
\* above since_id only, MaxComments at most (since = 0: no since_id)
ServedComments(count, since) ==
    LET from == MathMax(since, count - MaxComments) + 1
    IN  [k \in 1..MathMax(0, count - from + 1) |-> from + k - 1]

\* the body of `if (data.success)` in loadComments
CommentsLoaded(d, comments) ==
    LET assigned == [d EXCEPT !.comments = comments,
                              !.lastCommentId =
                                  IF Len(comments) > 0 THEN MaxOf(comments)
                                  ELSE @]
    IN  IF assigned.isLooping /\ Len(comments) > 0 THEN StartLoop(assigned)
        ELSE assigned

\* data.comments.forEach(comment => { if (!comments.find(...)) push })
RECURSIVE PushNew(_, _, _)
PushNew(list, comments, k) ==
    IF k > Len(comments) THEN list
    ELSE PushNew(IF comments[k] \in Range(list) THEN list
                 ELSE Append(list, comments[k]),
                 comments, k + 1)

\* list.slice(-n)
LastOf(list, n) ==
    IF Len(list) <= n THEN list
    ELSE [k \in 1..n |-> list[Len(list) - n + k]]

\* the body of `if (data.success && data.comments.length > 0)` in the poll
\* callback
CommentsPolled(d, comments) ==
    LET pushed == PushNew(d.comments, comments, 1)
    IN  [d EXCEPT !.comments = IF Len(pushed) > MaxComments
                               THEN LastOf(pushed, MaxComments) ELSE pushed,
                  !.lastCommentId = MaxOf(comments)]

\* submitComment() up to the fetch, with a username and a content typed in
CommentSubmitted(d, id) ==
    LET pushed == [d EXCEPT !.comments = Append(@, id), !.lastCommentId = id]
    IN  IF d.isLooping THEN StopLoop(pushed) ELSE pushed

\* the `.then(data => ...)` of submitComment with data.success: the first
\* comment carrying the local id takes the id the server gave
CommentSaved(d, localId, serverId) ==
    IF localId \in Range(d.comments)
    THEN LET i == CHOOSE i \in 1..Len(d.comments) :
                    /\ d.comments[i] = localId
                    /\ \A j \in 1..(i - 1) : d.comments[j] # localId
         IN  [d EXCEPT !.comments[i] = serverId, !.lastCommentId = serverId]
    ELSE d

NoDmOp == [name |-> "none", threw |-> FALSE]

DmCall(name) == [name |-> name, threw |-> FALSE]

\* DanmakuSystem as the script defines it; isLooping is the stored setting
InitDm ==
    /\ dm \in {[lastCommentId |-> 0, comments |-> <<>>, loopTimer |-> FALSE,
                loopIndex |-> 0, isLooping |-> l] : l \in BOOLEAN}
    /\ dmServer \in {0, 2, MaxServerStart}
    /\ dmInflight = {}
    /\ dmCalls = [loads |-> 0, polls |-> 0, submits |-> 0, others |-> 0]
    /\ dmOp = NoDmOp

\* loadComments() up to `await fetch('/api/comments')`
LoadCommentsCall ==
    /\ dmCalls.loads < MaxLoads
    /\ dmCalls' = [dmCalls EXCEPT !.loads = @ + 1]
    /\ dmInflight' = dmInflight \cup {[kind |-> "load", n |-> 0, since |-> 0,
                                      localId |-> 0, serverId |-> 0,
                                      wasLooping |-> FALSE]}
    /\ dmOp' = DmCall("loadComments")
    /\ UNCHANGED <<dm, dmServer>>
    /\ UNCHANGED <<styleVars, apiVars, legacyVars>>
    /\ UNCHANGED <<gameVars, chartVars, alignVars, statusVars>>

\* the interval callback of startPolling() up to `await fetch(url)`
PollTick ==
    /\ dmCalls.polls < MaxPolls
    /\ dmCalls' = [dmCalls EXCEPT !.polls = @ + 1]
    /\ dmInflight' = dmInflight \cup {[kind |-> "poll", n |-> dmCalls.polls,
                                      since |-> dm.lastCommentId,
                                      localId |-> 0, serverId |-> 0,
                                      wasLooping |-> FALSE]}
    /\ dmOp' = DmCall("poll")
    /\ UNCHANGED <<dm, dmServer>>
    /\ UNCHANGED <<styleVars, apiVars, legacyVars>>
    /\ UNCHANGED <<gameVars, chartVars, alignVars, statusVars>>

\* the rest of loadComments() or of the poll callback, when the response
\* arrives: the request failed or reported no success, or it carries the
\* comments the server holds
GetSettles ==
    \E req \in dmInflight : \E ok \in BOOLEAN :
        /\ req.kind \in {"load", "poll"}
        /\ dmInflight' = dmInflight \ {req}
        /\ LET comments == ServedComments(dmServer, req.since)
           IN  dm' = CASE ~ok -> dm
                       [] ok /\ req.kind = "load" -> CommentsLoaded(dm, comments)
                       [] ok /\ req.kind = "poll" ->
                            IF Len(comments) > 0
                            THEN CommentsPolled(dm, comments) ELSE dm
        /\ dmOp' = DmCall(IF req.kind = "load" THEN "loaded" ELSE "polled")
        /\ UNCHANGED <<dmServer, dmCalls>>
        /\ UNCHANGED <<styleVars, apiVars, legacyVars>>
        /\ UNCHANGED <<gameVars, chartVars, alignVars, statusVars>>

\* submitComment(), with a username and a content typed in
SubmitCommentCall ==
    /\ dmCalls.submits < MaxSubmits
    /\ dmCalls' = [dmCalls EXCEPT !.submits = @ + 1]
    /\ LET id == LocalIdBase + dmCalls.submits
       IN  /\ dm' = CommentSubmitted(dm, id)
           /\ dmInflight' = dmInflight \cup {[kind |-> "post", n |-> 0, since |-> 0,
                                             localId |-> id, serverId |-> 0,
                                             wasLooping |-> dm.isLooping]}
    /\ dmOp' = DmCall("submitComment")
    /\ UNCHANGED dmServer
    /\ UNCHANGED <<styleVars, apiVars, legacyVars>>
    /\ UNCHANGED <<gameVars, chartVars, alignVars, statusVars>>

\* the server stores the comment of a POST /api/comments request
ServerStoresPost ==
    \E req \in dmInflight :
        /\ req.kind = "post" /\ req.serverId = 0
        /\ dmServer' = dmServer + 1
        /\ dmInflight' = (dmInflight \ {req})
                            \cup {[req EXCEPT !.serverId = dmServer + 1]}
        /\ dmOp' = DmCall("server stores")
        /\ UNCHANGED <<dm, dmCalls>>
        /\ UNCHANGED <<styleVars, apiVars, legacyVars>>
        /\ UNCHANGED <<gameVars, chartVars, alignVars, statusVars>>

\* the then/catch/finally of submitComment: the response reports success with
\* the stored comment, or the request failed
PostSettles ==
    \E req \in dmInflight : \E ok \in BOOLEAN :
        /\ req.kind = "post"
        /\ ok => req.serverId # 0
        /\ dm' = IF ok THEN CommentSaved(dm, req.localId, req.serverId) ELSE dm
        /\ dmInflight' = (dmInflight \ {req}) \cup
               (IF req.wasLooping
                THEN {[kind |-> "restart", n |-> 0, since |-> 0,
                       localId |-> 0, serverId |-> 0, wasLooping |-> TRUE]}
                ELSE {})
        /\ dmOp' = DmCall("posted")
        /\ UNCHANGED <<dmServer, dmCalls>>
        /\ UNCHANGED <<styleVars, apiVars, legacyVars>>
        /\ UNCHANGED <<gameVars, chartVars, alignVars, statusVars>>

\* the timeout `setTimeout(() => this.startLoop(), 500)` fires
RestartLoopFires ==
    \E req \in dmInflight :
        /\ req.kind = "restart"
        /\ dmInflight' = dmInflight \ {req}
        /\ dm' = StartLoop(dm)
        /\ dmOp' = DmCall("restart")
        /\ UNCHANGED <<dmServer, dmCalls>>
        /\ UNCHANGED <<styleVars, apiVars, legacyVars>>
        /\ UNCHANGED <<gameVars, chartVars, alignVars, statusVars>>

\* the interval of startLoop() fires
LoopTimerFires ==
    /\ dm.loopTimer
    /\ dm' = PlayNextInLoop(dm)
    /\ dmOp' = [name |-> "playNextInLoop", threw |-> PlayThrows(dm)]
    /\ UNCHANGED <<dmServer, dmInflight, dmCalls>>
    /\ UNCHANGED <<styleVars, apiVars, legacyVars>>
    /\ UNCHANGED <<gameVars, chartVars, alignVars, statusVars>>

\* toggleLoop(), from a click on the loop switch
ToggleLoopCall ==
    /\ dm' = LET toggled == [dm EXCEPT !.isLooping = ~@]
             IN  IF toggled.isLooping THEN StartLoop(toggled)
                 ELSE StopLoop(toggled)
    /\ dmOp' = DmCall("toggleLoop")
    /\ UNCHANGED <<dmServer, dmInflight, dmCalls>>
    /\ UNCHANGED <<styleVars, apiVars, legacyVars>>
    /\ UNCHANGED <<gameVars, chartVars, alignVars, statusVars>>

\* another user posts a comment
OtherUserPosts ==
    /\ dmCalls.others < MaxOthers
    /\ dmCalls' = [dmCalls EXCEPT !.others = @ + 1]
    /\ dmServer' = dmServer + 1
    /\ dmOp' = DmCall("other user posts")
    /\ UNCHANGED <<dm, dmInflight>>
    /\ UNCHANGED <<styleVars, apiVars, legacyVars>>
    /\ UNCHANGED <<gameVars, chartVars, alignVars, statusVars>>

NextDm ==
    \/ LoadCommentsCall
    \/ PollTick
    \/ GetSettles
    \/ SubmitCommentCall
    \/ ServerStoresPost
    \/ PostSettles
    \/ RestartLoopFires
    \/ LoopTimerFires
    \/ ToggleLoopCall
    \/ OtherUserPosts

-----------------------------------------------------------------------------
(* GlucoseUtils.getStatus (static/js/glucose-api.js), values in tenths of
   mmol/L *)

\* largest value explored, in tenths of mmol/L
MaxStatusValue == 150

\* GlucoseUtils.THRESHOLDS
THRESHOLDS ==
    [LOW |-> 39, NORMAL_LOW |-> 44, NORMAL_HIGH |-> 78, WARNING |-> 100,
     DANGER |-> 111]

\* getStatus(value)
GetStatus(value) ==
    IF JsLess(value, THRESHOLDS.LOW) THEN "low"
    ELSE IF JsLess(value, THRESHOLDS.NORMAL_HIGH) THEN "normal"
    ELSE IF JsLess(value, THRESHOLDS.DANGER) THEN "warning"
    ELSE "danger"

\* the values getStatus is applied to
StatusValues ==
    {Num(n) : n \in 0..MaxStatusValue} \cup {Null, NaN, Undefined}

NoStatus == [done |-> FALSE, status |-> ""]

InitStatus ==
    /\ statusArg \in StatusValues
    /\ statusResult = NoStatus

\* GlucoseUtils.getStatus(statusArg)
GetStatusCall ==
    /\ ~statusResult.done
    /\ statusResult' = [done |-> TRUE, status |-> GetStatus(statusArg)]
    /\ UNCHANGED <<statusArg, styleVars, apiVars, legacyVars, dmVars>>
    /\ UNCHANGED <<gameVars, chartVars, alignVars>>

NextStatus == GetStatusCall

-----------------------------------------------------------------------------
(* Specifications: each explores one component and leaves the others as
   constructed *)

ChartParked ==
    /\ storedRange = NoItem
    /\ currentTimeRange = "3h"
    /\ maxPoints = 36
    /\ players = PlayerIds
    /\ chart = CreateChart(players)
    /\ historyData = [id \in Range(players) |-> <<>>]
    /\ isLoading = FALSE
    /\ inflight = {}
    /\ now = StartTime
    /\ issued = 0
    /\ dropped = FALSE
    /\ cop = NoChartOp
    /\ lastResult = NoResult
    /\ found = NoBuffers
    /\ uncaught = FALSE

AlignParked ==
    /\ alignArg = 0
    /\ alignResult = [done |-> FALSE, ms |-> 0]

StylesParked ==
    /\ stylePlayers = <<>>
    /\ styleResult = NoStyles

ApiParked ==
    /\ api = [players |-> <<>>, demoData |-> EmptyObject, mode |-> "live"]
    /\ apiOp = NoApiOp

LegacyParked ==
    /\ legacy = LegacyCreated(PlayerIds)
    /\ legacyInflight = {}
    /\ legacyNow = StartTime
    /\ legacyIssued = 0
    /\ legacyArrived = 0
    /\ legacyOp = NoLegacyOp

DmParked ==
    /\ dm = [lastCommentId |-> 0, comments |-> <<>>, loopTimer |-> FALSE,
             loopIndex |-> 0, isLooping |-> FALSE]
    /\ dmServer = 0
    /\ dmInflight = {}
    /\ dmCalls = [loads |-> 0, polls |-> 0, submits |-> 0, others |-> 0]
    /\ dmOp = NoDmOp

StatusParked ==
    /\ statusArg = Null
    /\ statusResult = NoStatus

RestParked ==
    StylesParked /\ ApiParked /\ LegacyParked /\ DmParked /\ StatusParked

GameParked == GameStartsIn({InitialState})

InitGame == GameStartsIn(RunningGames) /\ ChartParked /\ AlignParked /\ RestParked

InitGrowthRun == GameStartsIn(FreshLevelGames) /\ ChartParked /\ AlignParked /\ RestParked

InitChartOnly == GameStartsIn({InitialState}) /\ InitChart /\ AlignParked /\ RestParked

InitAlignOnly == GameStartsIn({InitialState}) /\ ChartParked /\ InitAlign /\ RestParked

SpecGame == InitGame /\ [][NextGame]_vars

SpecGrowthRun == InitGrowthRun /\ [][NextGrowthRun]_vars

SpecTwin == InitGame /\ [][NextTwin]_vars

SpecChart == InitChartOnly /\ [][NextChart]_vars

SpecAlign == InitAlignOnly /\ [][NextAlign]_vars

InitLoop ==
    GameStartsIn(GamesWithParticles \cup AgedGames) /\ ChartParked /\ AlignParked /\ RestParked

SpecLoop == InitLoop /\ [][NextLoop]_vars

SpecFaultyLoop == InitLoop /\ [][NextFaultyLoop]_vars

SpecGameLoop == InitLoop /\ [][NextGameLoop]_vars

SpecChartLife == InitChartOnly /\ [][NextChartLife]_vars

\* requestAnimationFrame runs every callback it has accepted: a running
\* loop gets its next frame
SpecRunningLoop ==
    InitLoop /\ [][NextRunningLoop]_vars /\ WF_vars(RunningFrame)

InitStylesOnly ==
    /\ GameParked /\ ChartParked /\ AlignParked
    /\ InitStyles /\ ApiParked /\ LegacyParked /\ DmParked
    /\ StatusParked

SpecStyles == InitStylesOnly /\ [][NextStyles]_vars

InitApiOnly ==
    /\ GameParked /\ ChartParked /\ AlignParked
    /\ StylesParked /\ InitApi /\ LegacyParked /\ DmParked
    /\ StatusParked

SpecApi == InitApiOnly /\ [][NextApi]_vars

InitLegacyOnly ==
    /\ GameParked /\ ChartParked /\ AlignParked
    /\ StylesParked /\ ApiParked /\ InitLegacy /\ DmParked
    /\ StatusParked

SpecLegacy == InitLegacyOnly /\ [][NextLegacy]_vars

InitDmOnly ==
    /\ GameParked /\ ChartParked /\ AlignParked
    /\ StylesParked /\ ApiParked /\ LegacyParked /\ InitDm
    /\ StatusParked

SpecDanmaku == InitDmOnly /\ [][NextDm]_vars

InitStatusOnly ==
    /\ GameParked /\ ChartParked /\ AlignParked
    /\ StylesParked /\ ApiParked /\ LegacyParked /\ DmParked
    /\ InitStatus

SpecStatus == InitStatusOnly /\ [][NextStatus]_vars

-----------------------------------------------------------------------------
(* Claims about CastleGame *)

Updated == op.name = "updateWithGlucose"

\* buildProgress as the tier branch leaves it, before the level check
AfterTierProgress ==
    prev.buildProgress +
        (CASE TierOf(op.v) = "scarcity" -> 2
           [] TierOf(op.v) = "growth" -> 10
           [] OTHER -> 0)

\* C1: after any sequence of updateWithGlucose and reset calls the state has
\* 0 <= health <= 100, 0 <= buildProgress < 100, level in 1..5 and
\* 0 <= attackIntensity <= 1.
C1_StateInRange ==
    /\ state.health \in 0..1000
    /\ state.buildProgress \in 0..999
    /\ state.level \in 1..5
    /\ state.attackIntensity \in 0..10

\* a severe reading on a castle whose health is already 0
C1_Witness ==
    /\ Updated
    /\ TierOf(op.v) = "severe"
    /\ prev.health = 0
    /\ state.health = 0

\* C2: one updateWithGlucose(v) call with a number v applies the table row of
\* the tier containing v (3.9 and 7.8 are growth, 10.0 mild, 11.1 moderate);
\* the level check then resets a buildProgress that reached 100.
C2_TierRowApplied ==
    (Updated /\ op.v.kind = "number") =>
        LET v == op.v.n
            dBuild == IF v < 39 THEN 2 ELSE IF v <= 78 THEN 10 ELSE 0
            dHealth == IF v < 39 THEN -1
                       ELSE IF v <= 78 THEN 3
                       ELSE IF v <= 100 THEN -3
                       ELSE IF v <= 111 THEN -6
                       ELSE -10
            attack == IF v <= 78 THEN 0
                      ELSE IF v <= 100 THEN 3
                      ELSE IF v <= 111 THEN 6
                      ELSE 10
            h == prev.health + dHealth
            b == prev.buildProgress + dBuild
        IN  /\ state.health = (IF h < 0 THEN 0 ELSE IF h > 1000 THEN 1000 ELSE h)
            /\ state.attackIntensity = attack
            /\ state.buildProgress = (IF b >= 1000 THEN 0 ELSE b)
            /\ state.lastGlucose = op.v

\* the boundary reading 11.1 taken as a moderate attack
C2_Witness ==
    /\ Updated
    /\ op.v = Num(111)
    /\ prev.health >= 6
    /\ state.health = prev.health - 6
    /\ state.attackIntensity = 6

\* C3: a call in which buildProgress is >= 100 after the tier update resets
\* buildProgress to 0 and raises level by exactly 1 if level < 5 (level 5
\* stays 5); every other call leaves level unchanged.
C3_LevelUpRule ==
    Updated =>
        IF AfterTierProgress >= 1000
        THEN /\ state.buildProgress = 0
             /\ state.level = (IF prev.level < 5 THEN prev.level + 1 ELSE 5)
        ELSE state.level = prev.level

\* buildProgress reaches 100 on a castle that is already at level 5
C3_Witness ==
    /\ Updated
    /\ AfterTierProgress >= 1000
    /\ prev.level = 5
    /\ state.level = 5
    /\ state.buildProgress = 0

\* C4: from buildProgress 0 at level L < 5, consecutive growth ticks raise
\* buildProgress by 1 per tick and leave level at L for 99 ticks; the 100th
\* tick is the level-up: level L+1, buildProgress 0.
C4_HundredthGrowthTick ==
    (start.buildProgress = 0 /\ start.level < 5) =>
        /\ ticks <= 99 =>
            /\ state.buildProgress = 10 * ticks
            /\ state.level = start.level
        /\ ticks = 100 =>
            /\ state.buildProgress = 0
            /\ state.level = start.level + 1

\* the 100th growth tick of a run started at level 4
C4_Witness ==
    /\ start.buildProgress = 0
    /\ start.level = 4
    /\ ticks = 100
    /\ prev.buildProgress = 990
    /\ state.level = 5

Deterministic(st) ==
    <<st.health, st.level, st.buildProgress, st.isUnderAttack,
      st.attackIntensity, st.lastGlucose>>

\* C5: two instances started in the same state and fed the same values agree
\* on health, level, buildProgress, attackIntensity and lastGlucose after
\* every tick, whatever their random draws.
C5_RandomIndependent == Deterministic(state) = Deterministic(twin)

\* the draws of the two instances differed: one spawned, the other did not
C5_Witness ==
    /\ ticks >= 1
    /\ Len(state.particles) # Len(twin.particles)
    /\ TierOf(op.v) = "growth"

-----------------------------------------------------------------------------
(* Claims about GlucoseChart *)

BufferLengths ==
    {Len(chart.labels)}
        \cup {Len(chart.datasets[i]) : i \in DOMAIN chart.datasets}
        \cup {Len(historyData[id]) : id \in DOMAIN historyData}

\* C6: after any sequence of addDataPoint calls, bulk loads, setTimeRange
\* and clear calls, the labels and every player's dataset and historyData
\* list are no longer than maxPoints of the active preset.  (Stated for the
\* states in which no bulk load is pending.)
C6_BuffersWithinBudget ==
    ~isLoading => \A n \in BufferLengths : n <= maxPoints

\* C7: the response of a fetch that is not the most recently issued one
\* never alters labels, datasets or historyData: whenever a fetch settles
\* and the buffers change, it is the latest fetch.
C7_StaleResponseIgnored ==
    [][\A req \in inflight :
          (req \notin inflight' /\ req.id # issued)
              => (chart' = chart /\ historyData' = historyData)]_vars

\* the response of the latest fetch is applied although another load was
\* asked for (and dropped) while it was in flight
C7_Witness ==
    /\ cop.name = "response"
    /\ cop.fetched
    /\ cop.id = issued
    /\ dropped
    /\ Len(chart.labels) > 0

C9_DatasetsMatchLabels ==
    chart.alive =>
        \A i \in DOMAIN chart.datasets : Len(chart.datasets[i]) = Len(chart.labels)

Levelups(st) == Len(SelectSeq(st.particles, LAMBDA p : p.type = "levelup"))

\* C21: reset() in any reachable state yields the defaults: health 100,
\* level 1, buildProgress 0, attackIntensity 0, not under attack, no
\* particles; and the machine takes further ticks afterwards.
C21_ResetRestoresDefaults ==
    op.name = "reset" =>
        /\ state.health = 1000
        /\ state.level = 1
        /\ state.buildProgress = 0
        /\ state.attackIntensity = 0
        /\ state.isUnderAttack = FALSE
        /\ state.particles = <<>>
        /\ ticks < MaxTicks => ENABLED UpdateCall

\* a tick has been applied to a game that reset() had just returned to the
\* defaults (no update leaves lastGlucose at the default 5.6)
C21_Witness ==
    /\ Updated
    /\ start # InitialState
    /\ prev = InitialState
    /\ state # prev

\* C22 as claimed: every call in which buildProgress reaches >= 100 after
\* the tier update adds one levelup particle.
C22_EveryResetEmitsLevelup ==
    (Updated /\ AfterTierProgress >= 1000) =>
        Levelups(state) = Levelups(prev) + 1

\* C22, amended: a call in which buildProgress reaches >= 100 after the tier
\* update adds one levelup particle exactly when level < 5 (the level is
\* raised); at level 5 buildProgress is reset to 0 and no levelup particle
\* is added; no other call adds a levelup particle.
C22_LevelupWhenLevelRises ==
    Updated =>
        Levelups(state) =
            Levelups(prev) +
                (IF AfterTierProgress >= 1000 /\ prev.level < 5 THEN 1 ELSE 0)

\* buildProgress reaches 100 below level 5 and the particle is there
C22_Witness ==
    /\ Updated
    /\ AfterTierProgress >= 1000
    /\ prev.level < 5
    /\ state.level = prev.level + 1
    /\ Levelups(state) = Levelups(prev) + 1

\* C39: updateWithGlucose called with a missing value (null, undefined or
\* NaN) is not treated as a reading of any tier: health, level,
\* buildProgress and attackIntensity are left unchanged.
C39_MissingValueChangesNothing ==
    (Updated /\ op.v.kind # "number") =>
        /\ state.health = prev.health
        /\ state.level = prev.level
        /\ state.buildProgress = prev.buildProgress
        /\ state.attackIntensity = prev.attackIntensity

-----------------------------------------------------------------------------
(* Claims about the particles and the frame loop *)

\* a frame has just run to its end
FrameRan == op.name \in {"start", "frame"} /\ ~Throws(prev)

\* C23: at the end of every updateParticles frame every particle in the list
\* has 0 < life <= 1 (here 0 < life <= maxLife), and the particles whose
\* life reached <= 0 in the frame are gone: the list holds exactly the
\* particles that had more than one step of life left, each one step older.
C23_LiveParticlesOnly ==
    FrameRan =>
        /\ \A i \in DOMAIN state.particles :
            /\ state.particles[i].life > 0
            /\ state.particles[i].life <= state.particles[i].maxLife
        /\ Len(state.particles) =
            Cardinality({i \in DOMAIN prev.particles : prev.particles[i].life - 1 > 0})

\* a frame has removed one particle and kept another
C23_Witness ==
    /\ FrameRan
    /\ Len(prev.particles) = 2
    /\ Len(state.particles) = 1
    /\ prev.particles[1].life = 1
    /\ state.particles[1].life = prev.particles[2].life - 1

C31_ParticlesDieOut ==
    (loop.pending # {} /\ state.particles # <<>>) ~> (state.particles = <<>>)

\* a frame of the running loop has removed the last particle
C31_Witness ==
    /\ op.name = "frame"
    /\ loop.pending # {}
    /\ Len(prev.particles) = 1
    /\ prev.particles[1].maxLife = 89
    /\ state.particles = <<>>

\* the fields owned by the state machine
Machine(st) ==
    <<st.health, st.level, st.buildProgress, st.attackIntensity,
      st.isUnderAttack, st.lastGlucose>>

\* C30: start, stop and the frames (updateParticles and draw) never change
\* health, level, buildProgress, attackIntensity or lastGlucose: a step
\* that changes one of them is an updateWithGlucose or a reset call.
C30_FramesLeaveMachineAlone ==
    [][Machine(state') # Machine(state) =>
          op'.name \in {"updateWithGlucose", "reset"}]_vars

\* a frame has aged the particles of a castle that is under attack
C30_Witness ==
    /\ op.name = "frame"
    /\ state.attackIntensity > 0
    /\ state.health < 1000
    /\ Len(prev.particles) > 0
    /\ state.particles # prev.particles
    /\ Machine(state) = Machine(prev)

-----------------------------------------------------------------------------
(* Claims about the bulk load of GlucoseChart *)

\* the last operation was a fetch settling with a successful response on a
\* live chart: lastResult.players has been applied
Applied == cop.name = "response" /\ cop.fetched /\ found.chart.alive

\* a chart of the same players that has never held data
FreshBuffers ==
    [chart |-> CreateChart(players),
     historyData |-> [id \in Range(players) |-> <<>>]]

\* the entries of result.players that contribute readings
Reporting ==
    {i \in 1..Len(lastResult.players) : Usable(lastResult.players[i])}

DuplicateIds ==
    \E i, j \in 1..Len(lastResult.players) :
        i # j /\ lastResult.players[i].user_id = lastResult.players[j].user_id

\* floor(timestamp / bucketInterval) * bucketInterval for 5-minute buckets
Bucket(ms) == ms - (ms % 300000)

\* the positions, in the list the response supplies for player id, of the
\* readings whose bucket is t
Hits(id, t) ==
    {<<i, j>> \in UNION {{i} \X (1..Len(lastResult.players[i].data)) : i \in Reporting} :
        /\ lastResult.players[i].user_id = id
        /\ Bucket(lastResult.players[i].data[j].datetime) = t}

\* sortedTimestamps of the load that has just been applied
Axis == SortAscending(AllTimestamps(lastResult.players))

\* C11: a bulk load rebuilds the axis and the matrix from scratch: the
\* labels and datasets it leaves are those a chart without prior content
\* gets from the same response, and applying the response once more
\* changes nothing.
C11_RebuiltFromScratch ==
    Applied =>
        LET fresh == Loaded(FreshBuffers, players, currentTimeRange, lastResult.players)
            again == Loaded(Buffers, players, currentTimeRange, lastResult.players)
        IN  /\ chart.labels = fresh.chart.labels
            /\ chart.datasets = fresh.chart.datasets
            /\ again.chart.labels = chart.labels
            /\ again.chart.datasets = chart.datasets

\* a response has replaced labels that were there before
C11_Witness ==
    /\ Applied
    /\ Len(found.chart.labels) > 0
    /\ Len(chart.labels) > 0
    /\ chart.labels # found.chart.labels

\* C12: after a successful bulk load (of a response without duplicate ids)
\* every dataset has one cell per axis timestamp; the cell of player e at
\* timestamp t is the value of a reading of e whose bucket is t if there is
\* one, and null otherwise; a player without readings has an all-null row.
C12_CellsAreReadingsOrNull ==
    (Applied /\ ~DuplicateIds) =>
        \A i \in 1..Len(players) :
            /\ Len(chart.datasets[i]) = Len(Axis)
            /\ \A k \in 1..Len(Axis) :
                LET hits == Hits(players[i], Axis[k])
                IN  IF hits = {}
                    THEN chart.datasets[i][k] = Null
                    ELSE \E h \in hits :
                            chart.datasets[i][k] = lastResult.players[h[1]].data[h[2]].value

\* a load in which one player has readings and another has an empty list
C12_Witness ==
    /\ Applied
    /\ ~DuplicateIds
    /\ Len(chart.labels) > 0
    /\ \E i \in 1..Len(players) :
        /\ \E e \in Reporting :
            /\ lastResult.players[e].user_id = players[i]
            /\ lastResult.players[e].data = <<>>
        /\ \A k \in 1..Len(Axis) : chart.datasets[i][k] = Null
    /\ \E i \in 1..Len(players) : \E k \in 1..Len(Axis) : chart.datasets[i][k] # Null

\* C13 as claimed: when several readings of a player fall into one bucket,
\* the cell holds the value of the one that comes last in the supplied list.
C13_LaterPositionWins ==
    (Applied /\ ~DuplicateIds) =>
        \A i \in 1..Len(players) : \A k \in 1..Len(Axis) :
            LET hits == Hits(players[i], Axis[k])
            IN  hits # {} =>
                    \E h \in hits :
                        /\ \A g \in hits : g[2] <= h[2]
                        /\ chart.datasets[i][k] = lastResult.players[h[1]].data[h[2]].value

\* C13, amended: when several readings of a player fall into one bucket, the
\* cell holds the value of the one that comes first in the supplied list
\* (the list is newest first and is written in reverse), not an average.
C13_EarlierPositionWins ==
    (Applied /\ ~DuplicateIds) =>
        \A i \in 1..Len(players) : \A k \in 1..Len(Axis) :
            LET hits == Hits(players[i], Axis[k])
            IN  hits # {} =>
                    \E h \in hits :
                        /\ \A g \in hits : h[2] <= g[2]
                        /\ chart.datasets[i][k] = lastResult.players[h[1]].data[h[2]].value

\* two readings with different values share a bucket of a displayed player
C13_Witness ==
    /\ Applied
    /\ ~DuplicateIds
    /\ \E i \in 1..Len(players) : \E k \in 1..Len(Axis) :
        \E g, h \in Hits(players[i], Axis[k]) :
            /\ g[2] < h[2]
            /\ lastResult.players[g[1]].data[g[2]].value
                    # lastResult.players[h[1]].data[h[2]].value
            /\ chart.datasets[i][k] = lastResult.players[g[1]].data[g[2]].value

\* C14: a response that contains the same player id twice is rejected: the
\* buffers are what the fetch found.
C14_DuplicateIdsRejected ==
    (cop.name = "response" /\ DuplicateIds) => Buffers = found

-----------------------------------------------------------------------------
(* Claims about errors and the life cycle of GlucoseChart *)

C17_FailedFetchKeepsBuffers ==
    (cop.name = "response" /\ ~cop.fetched) =>
        /\ Buffers = found
        /\ ~isLoading
        /\ ~uncaught

\* a fetch has rejected on a chart that holds data
C17_Witness ==
    /\ cop.name = "response"
    /\ lastResult.kind = "reject"
    /\ found.chart.alive
    /\ Len(chart.labels) > 0
    /\ \E id \in DOMAIN historyData : Len(historyData[id]) > 0

\* C18: clear() and updatePlayers(newPlayers) leave the labels, every
\* dataset and every historyData list empty, whenever they are called.
C18_ClearAndUpdatePlayersEmpty ==
    cop.name \in {"clear", "updatePlayers"} =>
        /\ chart.labels = <<>>
        /\ \A i \in DOMAIN chart.datasets : chart.datasets[i] = <<>>
        /\ \A id \in DOMAIN historyData : historyData[id] = <<>>

\* C19: once destroy() has returned, neither the response of a fetch that
\* was in flight nor an addDataPoint tick changes labels, datasets or
\* historyData, and neither lets an error escape.
C19_NoWriteAfterDestroy ==
    [][(/\ ~chart.alive
        /\ \/ now' # now
           \/ (inflight' # inflight /\ inflight' \subseteq inflight)) =>
          /\ chart' = chart
          /\ historyData' = historyData
          /\ ~uncaught']_vars

\* a successful response has arrived at a destroyed chart
C19_Witness ==
    /\ cop.name = "response"
    /\ cop.fetched
    /\ ~found.chart.alive
    /\ Len(lastResult.players) > 0
    /\ ~chart.alive

\* C33: in every reachable state, also right after construction with any
\* stored preference, currentTimeRange is a key of the preset table and
\* maxPoints is that preset's points, and no call fails on an undefined
\* preset.
C33_RangeIsAlwaysPreset ==
    /\ HasRange(currentTimeRange)
    /\ maxPoints = TIME_RANGES[currentTimeRange].points
    /\ ~uncaught

\* C34: at most one bulk fetch is in flight; isLoading is true exactly
\* while a fetch is in flight; and a loadHistoryFromAPI or setTimeRange call
\* made while isLoading is true issues no fetch.
C34_OneFetchInFlight ==
    /\ Cardinality(inflight) <= 1
    /\ isLoading <=> (inflight # {})
    /\ (cop.name \in {"loadHistoryFromAPI", "setTimeRange"} /\ cop.wasLoading)
            => ~cop.fetched

\* a setTimeRange call with a preset key was dropped while the one fetch was
\* in flight
C34_Witness ==
    /\ cop.name = "setTimeRange"
    /\ HasRange(cop.key)
    /\ cop.key # cop.oldKey
    /\ cop.wasLoading
    /\ ~cop.fetched
    /\ isLoading
    /\ Cardinality(inflight) = 1

\* the positions of a dataset that hold a value
Filled(data) ==
    SelectSeq([k \in 1..Len(data) |-> k], LAMBDA k : data[k] # Null)

\* C35: after a successful bulk load every historyData entry of a player
\* pairs a value with the label under which that value stands in the
\* player's dataset: the n-th entry is the n-th filled cell and its label.
C35_HistoryPairsValueWithItsLabel ==
    Applied =>
        \A i \in 1..Len(players) :
            LET filled == Filled(chart.datasets[i])
                entries == historyData[players[i]]
            IN  /\ Len(entries) = Len(filled)
                /\ \A n \in 1..Len(filled) :
                       /\ entries[n].value = chart.datasets[i][filled[n]]
                       /\ entries[n].time = chart.labels[filled[n]]

-----------------------------------------------------------------------------
(* Claims about the frame loop of CastleGame *)

\* C20: after stop() has returned no frame executes until start() is called
\* again, whatever start() and stop() calls came before: a frame never runs
\* while the game is halted.
C20_NoFrameAfterStop ==
    [][loop.halted => ~(op'.name = "frame" /\ loop'.handles # loop.handles)]_vars

-----------------------------------------------------------------------------
(* Claims about the line styles *)

\* C27 as stated: any two distinct entities of one chart receive different
\* (dash pattern, point marker) encodings, however many entities there are.
C27_AllEncodingsDiffer ==
    styleResult.done =>
        \A i, j \in DOMAIN styleResult.styles :
            i # j => styleResult.styles[i] # styleResult.styles[j]

\* C27: each entity's encoding is the palette entry at its ordinal position
\* modulo the palette's length (4), so two entities of one chart receive
\* different encodings exactly when their positions differ modulo 4; up to
\* four entities are pairwise distinct, and the fifth repeats the first.
C27_EncodingByPositionModuloPalette ==
    styleResult.done =>
        /\ DOMAIN styleResult.styles = DOMAIN stylePlayers
        /\ \A i \in DOMAIN styleResult.styles :
               styleResult.styles[i] = LineStyles[((i - 1) % 4) + 1]
        /\ \A i, j \in DOMAIN styleResult.styles :
               (styleResult.styles[i] = styleResult.styles[j])
                   <=> ((i - 1) % 4 = (j - 1) % 4)

C27_Witness ==
    /\ styleResult.done
    /\ Len(stylePlayers) = 5
    /\ styleResult.styles[1] = styleResult.styles[5]
    /\ \A i, j \in 1..4 :
           i # j => styleResult.styles[i] # styleResult.styles[j]

-----------------------------------------------------------------------------
(* Claims about GlucoseAPI *)

\* C24: after init() resolves, whenever the directory query did not deliver
\* a player list (the request throws, or the response does not report
\* success), players is the built-in default set of two players and
\* demoData holds an entry for each of them.
C24_FallsBackWithoutPlayerList ==
    (apiOp.name = "init" /\ apiOp.outcome \in {"throws", "not success"}) =>
        /\ api.players = DefaultPlayers
        /\ \A id \in Range(DefaultPlayers) : id \in DOMAIN api.demoData

-----------------------------------------------------------------------------
(* Claims about partial failures, the chart without time ranges and the
   comment list *)

\* the players of the chart whose only entries in the applied response
\* report a failure
FailedPlayers ==
    {i \in 1..Len(players) :
        /\ \E k \in 1..Len(lastResult.players) :
               /\ lastResult.players[k].user_id = players[i]
               /\ ~lastResult.players[k].success
        /\ \A k \in 1..Len(lastResult.players) :
               lastResult.players[k].user_id = players[i]
                   => ~Usable(lastResult.players[k])}

\* C28: when a bulk response succeeds overall but one entity's entry reports
\* failure, the failing entity's previously cached buffer is retained: its
\* dataset and its history are what they were before the response (not an
\* all-missing row).
C28_FailedEntityKeepsItsBuffer ==
    Applied =>
        \A i \in FailedPlayers :
            /\ chart.datasets[i] = found.chart.datasets[i]
            /\ historyData[players[i]] = found.historyData[players[i]]

\* C29: in the chart without time ranges, when the response of an
\* earlier-issued loadHistoryFromAPI call arrives after the response of a
\* later-issued one (which has been applied), the stale response does not
\* alter labels, datasets or historyData.
C29_StaleResponseIsIgnored ==
    [][(legacyOp'.name = "respond" /\ legacyOp'.stale) => legacy' = legacy]_vars

\* C25: state.comments never holds more than 20 comments, after any sequence
\* of loadComments, poll responses and submitComment calls.
C25_AtMostTwentyComments == Len(dm.comments) <= 20

-----------------------------------------------------------------------------
(* Claims about the danmaku comment list and its loop *)

\* C32: no two entries of state.comments share an id, under every
\* interleaving of submitComment, the completion of its POST and the poll
\* responses.
C32_NoDuplicateIds ==
    \A i, j \in 1..Len(dm.comments) :
        dm.comments[i] = dm.comments[j] => i = j


\* C37: whenever the loop plays a comment (playNextInLoop), loopIndex is a
\* valid index into state.comments: the call never reads
\* comments[loopIndex] beyond the end of the list.
C37_LoopIndexValid == ~(dmOp.name = "playNextInLoop" /\ dmOp.threw)

\* C38: whenever isLooping is false, no loop timer is active (loopTimer is
\* null).
C38_NoTimerWhenNotLooping == ~dm.isLooping => ~dm.loopTimer

-----------------------------------------------------------------------------
(* Claims about GlucoseUtils *)

\* the status the claim pairs with a tier of CastleGame
StatusOfTier(tier) ==
    CASE tier = "scarcity" -> "low"
      [] tier = "growth" -> "normal"
      [] tier \in {"mild", "moderate"} -> "warning"
      [] tier = "severe" -> "danger"

\* C36: for every value v, getStatus(v) agrees with the CastleGame tier of
\* v: low for scarcity, normal for growth, warning for a mild or moderate
\* attack, danger for a severe attack, also at 3.9, 7.8 and 11.1.
C36_StatusAgreesWithTier ==
    (statusResult.done /\ statusArg.kind = "number") =>
        statusResult.status = StatusOfTier(TierOf(statusArg))

====
